---------------------------- MODULE Spec2Model ----------------------------
(***************************************************************************)
(* A model of the dom4in.net collector (collector/collector.py): the label *)
(* codec, the per-length generator and its cursor, the legacy-pointer      *)
(* migration, the word generator, the aggregator and the block scheduler   *)
(* with its persisted cursors.                                             *)
(*                                                                         *)
(* Python strings are modelled as sequences of one-character strings, so   *)
(* that "a.x" is <<"a", ".", "x">> and formatting, splitting and len() are *)
(* computed rather than assumed.                                           *)
(***************************************************************************)
EXTENDS Integers, Sequences, FiniteSets, TLC

VARIABLES
    codecCall,      \* one call of index_to_label: its arguments and its result
    genCharset,     \* generator harness: the charset argument
    genLength,      \* generator harness: the length argument
    genTlds,        \* generator harness: the tlds argument
    genStart,       \* generator harness: the cursor the calls started from
    length_state,   \* the per-length cursor dict {tld_index, index, done}
    genBatch,       \* the batch returned by the last generator call
    genEmitted,     \* every batch returned so far, concatenated
    genCalls,       \* number of generator calls made, counted up to MaxCallsCounted
    genLastSize,    \* the batch_size argument of the last generator call
    words,          \* word harness: the list load_words() returns
    wordTlds,       \* word harness: the tlds argument
    word_pointer,   \* the WordPointer {version, index}
    wordStart,      \* word harness: word_pointer.index before the first call
    wordBatch,      \* the batch returned by the last generate_word_batch call
    wordCount,      \* the count argument of the last call
    wordProduced,   \* number of candidates returned so far
    wordCalls,      \* number of word blocks generated so far
    wordStopped,    \* the block loop has stopped on an empty batch
    aggr,           \* aggregator harness: the aggregate dict of the block
    aggrFed,        \* aggregator harness: the results fed so far, in arrival order
    aggrPayload,    \* aggregator harness: the payload built, <<>> before
    migLegacy,      \* migration harness: the Pointer as it was before migrate_to_v2
    migPointer,     \* migration harness: the Pointer object
    migCalled,      \* migration harness: migrate_to_v2 has run
    pointerFile,    \* state_pointer.json: [state, data]
    wordPointerFile,\* state_words_pointer.json: [state, data]
    argShort,       \* run(): the use_short argument
    argWords,       \* run(): the use_words argument
    world,          \* what the network answers for a domain
    pc,             \* run(): where the process is; "off" when it is not running
    pointer,        \* run(): the Pointer object
    use_short,      \* run(): use_short after the default-mode rule
    use_words,      \* run(): use_words
    next_mode,      \* run(): mode of the next block
    next_length_rr_index, \* run(): round-robin index over unfinished lengths
    mode_for_block, \* run(): mode of the current block
    blockBatch,     \* run(): batch, the batch of the current block
    blockAggr,      \* run(): aggr, the aggregate of the current block
    payload,        \* run(): the payload built for the current block
    status_code,    \* run(): the status upload_aggregate returned
    processed,      \* history: short-mode candidates of blocks whose cursor was saved
    uploaded,       \* history: short-mode candidates handed to the uploader in a payload
    uploadedTwice,  \* history: those handed over in more than one payload
    blocksStarted,  \* history: number of blocks begun since the history started
    lateCrash,      \* history: a crash hit between the upload and the pointer save
    block_index,    \* run(): number of the current block
    initialFile,    \* history: the pointer record the history started from
    dnsCall,        \* one call of check_domain_dns: the response met and the result
    httpCall,       \* one call of check_domain_http: the response met and the result
    \* the probe of one block (run.process_domain, sequential or in worker threads)
    worker_count,   \* W: 0 = the loop of the main thread, > 0 = a thread pool
    batchSize,      \* number of candidates of the block; they are numbered 1..batchSize
    resolver_state, \* per resolver (0-based): min_delay_ms, last_used_ms, ok, err
    clock,          \* now_ms()
    nextCand,       \* the next candidate of the batch to be handed to process_domain
    thr,            \* per thread: position in process_domain and its locals
    aggregated,     \* the results passed to update_aggregates, in order
    dnsAttempts,    \* number of calls of check_domain_dns in the block
    selectedAt,     \* per resolver: latest time stamp a selection gave it, -1 if none
    halted,         \* an exception left process_domain
    futures,        \* W > 0: per candidate, the future executor.submit returned
    probePayload,   \* the payload of the block, once built
    \* the short-mode blocks of one run, reduced to the choice of the length
    rrPointer,      \* the Pointer object
    rrIndex,        \* next_length_rr_index
    rrSelected,     \* length_for_block of the last block, 0 before the first
    rrWaited,       \* per length: blocks since it was selected, while not done
    rrStopped       \* the loop has stopped on an empty batch

codecVars == <<codecCall>>
genVars == <<genCharset, genLength, genTlds, genStart, length_state, genBatch,
             genEmitted, genCalls, genLastSize>>
wordVars == <<words, wordTlds, word_pointer, wordStart, wordBatch, wordCount,
              wordProduced, wordCalls, wordStopped>>
aggrVars == <<aggr, aggrFed, aggrPayload>>
migVars == <<migLegacy, migPointer, migCalled>>
wordHarnessVars == <<wordTlds, wordStart, wordBatch, wordCount, wordProduced,
                     wordCalls, wordStopped>>
runVars == <<pointerFile, wordPointerFile, argShort, argWords, world, pc, pointer,
             use_short, use_words, next_mode, next_length_rr_index, mode_for_block,
             blockBatch, blockAggr, payload, status_code, processed, uploaded,
             uploadedTwice, blocksStarted, lateCrash, block_index, initialFile>>
classifyVars == <<dnsCall, httpCall>>
probeVars == <<worker_count, batchSize, resolver_state, clock, nextCand, thr, aggregated,
               dnsAttempts, selectedAt, halted, futures, probePayload>>
rrVars == <<rrPointer, rrIndex, rrSelected, rrWaited, rrStopped>>
proberVars == <<classifyVars, probeVars, rrVars>>
vars == <<codecVars, genVars, wordVars, aggrVars, migVars, runVars, proberVars>>

-----------------------------------------------------------------------------
(* Bounds of the model *)

MaxCodecCharset == 4    \* codec: charsets of 1..MaxCodecCharset symbols
MaxCodecLen == 3        \* codec: label lengths 0..MaxCodecLen
MaxGenCharset == 2      \* generator: charsets of 0..MaxGenCharset symbols
MaxGenLen == 2          \* generator: label lengths 1..MaxGenLen
MaxGenTlds == 2         \* generator: TLD lists of 0..MaxGenTlds entries
MaxBatch == 10          \* generator: batch sizes 1..MaxBatch
MaxCallsCounted == 2    \* generator: calls are counted up to this number
MaxWords == 3           \* word generator: word lists of 0..MaxWords words
MaxWordTlds == 2        \* word generator: TLD lists of 1..MaxWordTlds entries
MaxWordCount == 4       \* word generator: counts 1..MaxWordCount
MaxWordCalls == 3       \* word generator: at most this many blocks
MaxResults == 3         \* aggregator: at most this many results per block
MaxMigLen == 6          \* migration: max_length 0..MaxMigLen
MaxMigIndex == 5        \* migration: legacy index -1..MaxMigIndex
MaxBlocks == 3          \* block loop: a history has at most this many blocks
MaxProbeBatch == 2      \* probe, W = 0: blocks of 1..MaxProbeBatch candidates
MaxResolvers == 2       \* probe, W = 0: resolver pools of 1..MaxResolvers entries
MaxRRLength == 3        \* length round robin: max_length 1..MaxRRLength

-----------------------------------------------------------------------------
(* Strings and small helpers *)

\* CHARSET = "abcdefghijklmnopqrstuvwxyz0123456789"
CHARSET ==
    <<"a", "b", "c", "d", "e", "f", "g", "h", "i", "j", "k", "l", "m",
      "n", "o", "p", "q", "r", "s", "t", "u", "v", "w", "x", "y", "z",
      "0", "1", "2", "3", "4", "5", "6", "7", "8", "9">>

Min(a, b) == IF a <= b THEN a ELSE b
Max(a, b) == IF a >= b THEN a ELSE b

RECURSIVE Pow(_, _)
\* base ** exp for exp >= 0 (Python: 0 ** 0 = 1)
Pow(base, exp) == IF exp = 0 THEN 1 ELSE base * Pow(base, exp - 1)

RECURSIVE Reversed(_)
Reversed(s) == IF s = <<>> THEN <<>> ELSE Append(Reversed(Tail(s)), Head(s))

Range(s) == {s[i] : i \in DOMAIN s}

-----------------------------------------------------------------------------
(* Label codec *)

RECURSIVE LabelChars(_, _, _)
\* the list `chars` built by the for loop: least-significant symbol first
LabelChars(idx, length, charset) ==
    IF length <= 0 THEN <<>>
    ELSE <<charset[(idx % Len(charset)) + 1]>>
            \o LabelChars(idx \div Len(charset), length - 1, charset)

\* a mutant: the list of symbols is not reversed
index_to_label_noreverse(idx, length, charset) == LabelChars(idx, length, charset)

index_to_label(idx, length, charset) == Reversed(LabelChars(idx, length, charset))


-----------------------------------------------------------------------------
(* Pointer and its migration *)

Digits == <<"0", "1", "2", "3", "4", "5", "6", "7", "8", "9">>

RECURSIVE Str(_)
\* str(n) for n >= 0: the decimal digits of n
Str(n) == IF n < 10 THEN <<Digits[n + 1]>>
          ELSE Str(n \div 10) \o <<Digits[(n % 10) + 1]>>

\* Pointer.tlds
PointerTlds ==
    << <<"c", "o", "m">>, <<"n", "e", "t">>, <<"o", "r", "g">>,
       <<"i", "o">>, <<"c", "o">> >>

\* Pointer(): the dataclass defaults, with the charset and max_length given
NewPointer(charset, max_length) ==
    [version |-> 1, charset |-> charset, max_length |-> max_length,
     tld_index |-> 0, length |-> 1, index |-> 0, batch_size |-> 25,
     length_states |-> <<>>]

\* the dict built by the loop of migrate_to_v2, keyed by str(L)
MigratedStates(self, tlds) ==
    [key \in {Str(L) : L \in 1..self.max_length} |->
        LET L == CHOOSE n \in 1..self.max_length : Str(n) = key
            total_for_length == Pow(Len(self.charset), L)
        IN  IF L < self.length
              THEN [tld_index |-> 0, index |-> total_for_length, done |-> TRUE]
            ELSE IF L = self.length
              THEN [tld_index |-> Max(0, Min(self.tld_index, Len(tlds) - 1)),
                    index |-> Max(0, self.index),
                    done |-> FALSE]
            ELSE [tld_index |-> 0, index |-> 0, done |-> FALSE]]

\* a mutant: the lengths below the legacy length are not marked done
migrate_to_v2_nodone(self, tlds) ==
    [self EXCEPT
        !.length_states =
            [key \in DOMAIN MigratedStates(self, tlds) |->
                [MigratedStates(self, tlds)[key] EXCEPT !.done = FALSE]],
        !.version = 2]

migrate_to_v2(self, tlds) ==
    [self EXCEPT !.length_states = MigratedStates(self, tlds), !.version = 2]

-----------------------------------------------------------------------------
(* The per-length generator *)

\* f"{label}.{tld}"
Domain(label, tld) == label \o <<".">> \o tld

RECURSIVE GenLoop_gt(_, _, _, _, _, _, _, _)
\* a mutant: the end of a TLD's index space is tested with > instead of >=
GenLoop_gt(batch, tld_index, index, done_flag, length, charset, tlds, batch_size) ==
    IF ~(Len(batch) < batch_size /\ ~done_flag)
      THEN [batch |-> batch,
            state |-> [tld_index |-> tld_index, index |-> index, done |-> done_flag]]
    ELSE LET wrap == index > Pow(Len(charset), length)
             index1 == IF wrap THEN 0 ELSE index
             tld_index1 == IF wrap THEN tld_index + 1 ELSE tld_index
         IN  IF wrap /\ tld_index1 >= Len(tlds)
               THEN [batch |-> batch,
                     state |-> [tld_index |-> tld_index1, index |-> index1,
                                done |-> TRUE]]
             ELSE LET tld == tlds[tld_index1 + 1]
                      label == index_to_label(index1, length, charset)
                  IN  GenLoop_gt(Append(batch, <<Domain(label, tld), tld>>),
                                 tld_index1, index1 + 1, done_flag,
                                 length, charset, tlds, batch_size)

RECURSIVE GenLoop(_, _, _, _, _, _, _, _)
\* the while loop of generate_batch_for_length and the three stores after it
GenLoop(batch, tld_index, index, done_flag, length, charset, tlds, batch_size) ==
    IF ~(Len(batch) < batch_size /\ ~done_flag)
      THEN [batch |-> batch,
            state |-> [tld_index |-> tld_index, index |-> index, done |-> done_flag]]
    ELSE LET wrap == index >= Pow(Len(charset), length)
             index1 == IF wrap THEN 0 ELSE index
             tld_index1 == IF wrap THEN tld_index + 1 ELSE tld_index
         IN  IF wrap /\ tld_index1 >= Len(tlds)
               THEN [batch |-> batch,
                     state |-> [tld_index |-> tld_index1, index |-> index1,
                                done |-> TRUE]]
             ELSE LET tld == tlds[tld_index1 + 1]
                      label == index_to_label(index1, length, charset)
                  IN  GenLoop(Append(batch, <<Domain(label, tld), tld>>),
                              tld_index1, index1 + 1, done_flag,
                              length, charset, tlds, batch_size)

\* a mutant: the done flag of the cursor is not looked at
generate_batch_for_length_redo(state, length, charset, tlds, batch_size) ==
    IF Pow(Len(charset), length) <= 0 \/ tlds = <<>>
      THEN [batch |-> <<>>, state |-> [state EXCEPT !.done = TRUE]]
    ELSE GenLoop(<<>>, state.tld_index, state.index, FALSE,
                 length, charset, tlds, batch_size)

\* generate_batch_for_length: the batch returned and the cursor as left in place
generate_batch_for_length(state, length, charset, tlds, batch_size) ==
    IF state.done \/ Pow(Len(charset), length) <= 0 \/ tlds = <<>>
      THEN [batch |-> <<>>, state |-> [state EXCEPT !.done = TRUE]]
    ELSE GenLoop(<<>>, state.tld_index, state.index, state.done,
                 length, charset, tlds, batch_size)

-----------------------------------------------------------------------------
(* The word generator *)

\* WordPointer()
NewWordPointer == [version |-> 1, index |-> 0]

RECURSIVE WordTldLoop(_, _, _, _, _, _)
\* the for loop over the TLDs for one word; n iterations are left
WordTldLoop(batch, tld_index, n, word, tlds, count) ==
    IF n = 0 \/ Len(batch) >= count
      THEN [batch |-> batch, tld_index |-> tld_index]
    ELSE LET tld == tlds[tld_index + 1] IN
         WordTldLoop(Append(batch, <<Domain(word, tld), tld>>),
                     (tld_index + 1) % Len(tlds), n - 1, word, tlds, count)

RECURSIVE WordLoop_nowrap(_, _, _, _, _, _)
\* a mutant: the loop ends at the end of the word list instead of restarting
WordLoop_nowrap(batch, idx, tld_index, wordlist, tlds, count) ==
    IF ~(Len(batch) < count /\ idx < Len(wordlist))
      THEN [batch |-> batch, index |-> idx]
    ELSE LET idx0 == IF idx >= Len(wordlist) THEN 0 ELSE idx
             word == wordlist[idx0 + 1]
             r == WordTldLoop(batch, tld_index, Len(tlds), word, tlds, count)
         IN  WordLoop_nowrap(r.batch, idx0 + 1, r.tld_index, wordlist, tlds, count)

RECURSIVE WordLoop(_, _, _, _, _, _)
\* the while loop of generate_word_batch
WordLoop(batch, idx, tld_index, wordlist, tlds, count) ==
    IF ~(Len(batch) < count /\ Len(wordlist) > 0)
      THEN [batch |-> batch, index |-> idx]
    ELSE LET idx0 == IF idx >= Len(wordlist) THEN 0 ELSE idx
             word == wordlist[idx0 + 1]
             r == WordTldLoop(batch, tld_index, Len(tlds), word, tlds, count)
         IN  WordLoop(r.batch, idx0 + 1, r.tld_index, wordlist, tlds, count)

\* a mutant: the index is wrapped to 0 as soon as it reaches the list length
generate_word_batch_eagerwrap(wp, wordlist, tlds, count) ==
    IF wordlist = <<>> THEN [batch |-> <<>>, word_pointer |-> wp]
    ELSE LET r == WordLoop(<<>>, wp.index, 0, wordlist, tlds, count)
         IN  [batch |-> r.batch,
              word_pointer |-> [wp EXCEPT !.index = r.index % Len(wordlist)]]

\* generate_word_batch: the batch returned and the word pointer as left;
\* wordlist is what load_words() read
generate_word_batch(wp, wordlist, tlds, count) ==
    IF wordlist = <<>> THEN [batch |-> <<>>, word_pointer |-> wp]
    ELSE LET r == WordLoop(<<>>, wp.index, 0, wordlist, tlds, count)
         IN  [batch |-> r.batch, word_pointer |-> [wp EXCEPT !.index = r.index]]

-----------------------------------------------------------------------------
(* Aggregation.  A Python dict is an insertion-ordered sequence of its      *)
(* values; every bucket carries its own key fields.                         *)

MAX_LENGTH == 10

\* code point order of two lowercase letters, by their place in CHARSET
CharLess(a, b) ==
    (CHOOSE k \in 1..Len(CHARSET) : CHARSET[k] = a)
        < (CHOOSE k \in 1..Len(CHARSET) : CHARSET[k] = b)

RECURSIVE StrLess(_, _)
\* Python's < on two strings of lowercase letters
StrLess(a, b) ==
    IF b = <<>> THEN FALSE
    ELSE IF a = <<>> THEN TRUE
    ELSE IF Head(a) = Head(b) THEN StrLess(Tail(a), Tail(b))
    ELSE CharLess(Head(a), Head(b))

\* init_aggregates()
init_aggregates ==
    [global |-> [domains_tracked_lifetime |-> 0, domains_tracked_24h |-> 0],
     length_stats |-> <<>>,
     length_stats_by_tld |-> <<>>,
     tld_stats |-> <<>>,
     word_pos_stats |-> <<>>]

\* d.setdefault(key, default): hit is the set of places of the key in d; a
\* bucket that exists keeps its place, a new bucket goes last
SetDefault(d, hit, default) == IF hit = {} THEN Append(d, default) ELSE d

\* the place of the bucket setdefault returned
BucketAt(d, hit) == IF hit = {} THEN Len(d) + 1 ELSE CHOOSE i \in hit : TRUE

\* a mutant: unused_found also counts the unregistered
CountFound_unusedall(b, dns_info, http_info) ==
    [b EXCEPT
        !.tracked_count = @ + 1,
        !.unregistered_found = IF ~dns_info.registered THEN @ + 1 ELSE @,
        !.unused_found =
            IF http_info.usage_state \in {"no_website", "parked_or_placeholder"}
              THEN @ + 1 ELSE @]

\* the counters a length, (tld, length) or (pos, length) bucket gets
CountFound(b, dns_info, http_info) ==
    [b EXCEPT
        !.tracked_count = @ + 1,
        !.unregistered_found = IF ~dns_info.registered THEN @ + 1 ELSE @,
        !.unused_found =
            IF dns_info.registered
               /\ http_info.usage_state \in {"no_website", "parked_or_placeholder"}
              THEN @ + 1 ELSE @]

\* the counters a TLD bucket gets
CountTld(b, length, dns_info, http_info) ==
    [b EXCEPT
        !.domains_checked_total = @ + 1,
        !.short_domains_checked_total = IF length <= MAX_LENGTH THEN @ + 1 ELSE @,
        !.short_unregistered_count =
            IF length <= MAX_LENGTH /\ ~dns_info.registered THEN @ + 1 ELSE @,
        !.short_no_website_count =
            IF length <= MAX_LENGTH /\ dns_info.registered
               /\ http_info.usage_state \in {"no_website", "parked_or_placeholder"}
              THEN @ + 1 ELSE @,
        !.short_active_site_count =
            IF length <= MAX_LENGTH /\ dns_info.registered
               /\ http_info.usage_state = "active_site"
              THEN @ + 1 ELSE @]

\* update_aggregates: the aggregate after the call (domain is not read)
update_aggregates(a, tld, length, dns_info, http_info, track_length_stats, word_pos_label) ==
    LET hitLen == {i \in DOMAIN a.length_stats : a.length_stats[i].length = length}
        ls == SetDefault(a.length_stats, hitLen,
                  [length |-> length,
                   total_possible |-> Pow(Len(CHARSET), length),
                   tracked_count |-> 0, unregistered_found |-> 0,
                   unused_found |-> 0])
        hitTldLen == {i \in DOMAIN a.length_stats_by_tld :
                        /\ a.length_stats_by_tld[i].tld = tld
                        /\ a.length_stats_by_tld[i].length = length}
        lts == SetDefault(a.length_stats_by_tld, hitTldLen,
                  [tld |-> tld, length |-> length,
                   total_possible |-> Pow(Len(CHARSET), length),
                   tracked_count |-> 0, unregistered_found |-> 0,
                   unused_found |-> 0])
        hitTld == {i \in DOMAIN a.tld_stats : a.tld_stats[i].tld = tld}
        ts == SetDefault(a.tld_stats, hitTld,
                  [tld |-> tld, domains_checked_total |-> 0,
                   short_domains_checked_total |-> 0, short_unregistered_count |-> 0,
                   short_no_website_count |-> 0, short_active_site_count |-> 0])
        hitPos == {i \in DOMAIN a.word_pos_stats :
                        /\ a.word_pos_stats[i].pos = word_pos_label
                        /\ a.word_pos_stats[i].length = length}
        wps == SetDefault(a.word_pos_stats, hitPos,
                  [pos |-> word_pos_label, length |-> length,
                   tracked_count |-> 0, unregistered_found |-> 0,
                   unused_found |-> 0])
    IN
    [global |->
        [domains_tracked_lifetime |-> a.global.domains_tracked_lifetime + 1,
         domains_tracked_24h |-> a.global.domains_tracked_24h + 1],
     length_stats |->
        IF track_length_stats
          THEN [ls EXCEPT ![BucketAt(a.length_stats, hitLen)] =
                    CountFound(@, dns_info, http_info)]
        ELSE a.length_stats,
     length_stats_by_tld |->
        IF track_length_stats
          THEN [lts EXCEPT ![BucketAt(a.length_stats_by_tld, hitTldLen)] =
                    CountFound(@, dns_info, http_info)]
        ELSE a.length_stats_by_tld,
     tld_stats |->
        [ts EXCEPT ![BucketAt(a.tld_stats, hitTld)] =
            CountTld(@, length, dns_info, http_info)],
     word_pos_stats |->
        IF word_pos_label # <<>>
          THEN [wps EXCEPT ![BucketAt(a.word_pos_stats, hitPos)] =
                    CountFound(@, dns_info, http_info)]
        ELSE a.word_pos_stats]

\* Python's < on two (string, int) sort keys
KeyLess(x, y) == StrLess(x[1], y[1]) \/ (x[1] = y[1] /\ x[2] < y[2])

\* sorted(values, key=...): keys[i] is the key of s[i]; stable
Sorted(s, keys) ==
    LET place(i) ==
            Cardinality({j \in DOMAIN s :
                \/ KeyLess(keys[j], keys[i])
                \/ (~KeyLess(keys[i], keys[j]) /\ j < i)}) + 1
    IN  [k \in DOMAIN s |-> s[CHOOSE i \in DOMAIN s : place(i) = k]]

\* a mutant: the stat lists are put in the payload in dict order, unsorted
build_payload_unsorted(date_str, a) ==
    [date |-> date_str,
     global |-> a.global,
     length_stats |-> a.length_stats,
     length_stats_by_tld |-> a.length_stats_by_tld,
     word_pos_stats |-> a.word_pos_stats]

\* build_payload
build_payload(date_str, a) ==
    [date |-> date_str,
     global |-> a.global,
     length_stats |->
        Sorted(a.length_stats,
               [i \in DOMAIN a.length_stats |-> <<<<>>, a.length_stats[i].length>>]),
     length_stats_by_tld |->
        Sorted(a.length_stats_by_tld,
               [i \in DOMAIN a.length_stats_by_tld |->
                    <<a.length_stats_by_tld[i].tld, a.length_stats_by_tld[i].length>>]),
     word_pos_stats |->
        Sorted(a.word_pos_stats,
               [i \in DOMAIN a.word_pos_stats |->
                    <<a.word_pos_stats[i].pos, a.word_pos_stats[i].length>>])]

-----------------------------------------------------------------------------
(* The two checks of the prober.  A response is what the remote end does;   *)
(* urlopen is urllib.request.urlopen with the default opener: it follows a  *)
(* redirect that names a location, returns a 2xx response, and raises       *)
(* HTTPError (a URLError) for every other status.                           *)

\* d.get(key, default) on a dict held as a record
DictGet(d, key, default) == IF key \in DOMAIN d THEN d[key] ELSE default

\* the statuses HTTPRedirectHandler follows
FollowedRedirects == {301, 302, 303, 307, 308}

\* urlopen(req): the exception raised ("none" when it returns) and the
\* response returned, which for a followed redirect is the one of its target
urlopen(resp) ==
    IF resp.transport # "ok" THEN [raised |-> resp.transport, resp |-> resp]
    ELSE IF resp.status \in 200..299 THEN [raised |-> "none", resp |-> resp]
    ELSE IF resp.status \in FollowedRedirects /\ resp.location # "none"
      THEN IF resp.target.status \in 200..299
             THEN [raised |-> "none", resp |-> resp.target]
           ELSE [raised |-> "HTTPError", resp |-> resp.target]
    ELSE [raised |-> "HTTPError", resp |-> resp]

\* the exceptions check_domain_dns catches around urlopen and read
DnsCaught == {"URLError", "HTTPError", "timeout", "SSLError"}

\* check_domain_dns: the dict returned, or the exception that leaves the call
check_domain_dns(resp) ==
    LET r == urlopen(resp) IN
    IF r.raised \in DnsCaught THEN [raised |-> "none", value |-> [resolver_error |-> TRUE]]
    ELSE IF r.raised # "none" THEN [raised |-> r.raised, value |-> <<>>]
    ELSE IF r.resp.status # 200
      THEN [raised |-> "none", value |-> [resolver_error |-> TRUE]]
    ELSE IF r.resp.body = "not_json"
      THEN [raised |-> "none", value |-> [resolver_error |-> TRUE]]
    ELSE IF r.resp.body # "object"
      THEN [raised |-> "AttributeError", value |-> <<>>]
    ELSE IF ~r.resp.has_Status
      THEN [raised |-> "none", value |-> [resolver_error |-> TRUE]]
    ELSE IF r.resp.Status = 0 /\ r.resp.Answer = "records"
      THEN [raised |-> "none",
            value |-> [registered |-> TRUE, has_dns |-> TRUE, resolver_error |-> FALSE]]
    ELSE [raised |-> "none",
          value |-> [registered |-> FALSE, has_dns |-> FALSE, resolver_error |-> FALSE]]

ParkingKeywords == {"domain parking", "parked domain", "this domain is for sale"}

ProductKeywords == {"pricing", "plans", "subscribe", "sign up", "buy now",
                    "api docs", "api documentation"}

\* the usage_state chain of check_domain_http on what urlopen returned
UsageState(status, html, body) ==
    IF status >= 500 THEN "no_website"
    ELSE IF body.phrases \cap ParkingKeywords # {} THEN "parked_or_placeholder"
    ELSE IF status \in {301, 302, 303, 307, 308} THEN "parked_or_placeholder"
    ELSE IF html /\ ~body.blank THEN "active_site"
    ELSE "no_website"

\* check_domain_http: every exception of the request is caught
check_domain_http(resp) ==
    LET r == urlopen(resp) IN
    IF r.raised # "none"
      THEN [usage_state |-> "no_website", product_state |-> "unknown"]
    ELSE [usage_state |-> UsageState(r.resp.status, r.resp.html, r.resp.body),
          product_state |-> IF r.resp.body.phrases \cap ProductKeywords # {}
                              THEN "active_product" ELSE "unknown"]

-----------------------------------------------------------------------------
(* Specification SpecCodec: one call of index_to_label on arguments drawn   *)
(* from the bounded sets                                                    *)

CodecIdle == [idx |-> 0, length |-> 0, charset |-> <<>>, called |-> FALSE,
              label |-> <<>>]

CodecInit ==
    \E c \in 1..MaxCodecCharset, L \in 0..MaxCodecLen :
        \E i \in 0..(Pow(c, L) - 1) :
            codecCall = [idx |-> i, length |-> L, charset |-> SubSeq(CHARSET, 1, c),
                         called |-> FALSE, label |-> <<>>]

Encode ==
    /\ ~codecCall.called
    /\ codecCall' = [codecCall EXCEPT
                        !.called = TRUE,
                        !.label = index_to_label(codecCall.idx, codecCall.length,
                                                 codecCall.charset)]

GenIdle ==
    /\ genCharset = <<>>
    /\ genLength = 0
    /\ genTlds = <<>>
    /\ genStart = [tld_index |-> 0, index |-> 0, done |-> FALSE]
    /\ length_state = [tld_index |-> 0, index |-> 0, done |-> FALSE]
    /\ genBatch = <<>>
    /\ genEmitted = <<>>
    /\ genCalls = 0
    /\ genLastSize = 0

WordIdle ==
    /\ words = <<>>
    /\ wordTlds = <<>>
    /\ word_pointer = NewWordPointer
    /\ wordStart = 0
    /\ wordBatch = <<>>
    /\ wordCount = 0
    /\ wordProduced = 0
    /\ wordCalls = 0
    /\ wordStopped = FALSE

AggrIdle ==
    /\ aggr = init_aggregates
    /\ aggrFed = <<>>
    /\ aggrPayload = <<>>

MigIdle ==
    /\ migLegacy = NewPointer(<<>>, 0)
    /\ migPointer = NewPointer(<<>>, 0)
    /\ migCalled = FALSE

RunIdleMemory ==
    /\ pointer = NewPointer(<<>>, 0)
    /\ use_short = FALSE
    /\ use_words = FALSE
    /\ next_mode = "short"
    /\ next_length_rr_index = 0
    /\ mode_for_block = "short"
    /\ blockBatch = <<>>
    /\ blockAggr = init_aggregates
    /\ payload = <<>>
    /\ status_code = 0
    /\ block_index = 0

RunIdle ==
    /\ pointerFile = [state |-> "empty", data |-> NewPointer(<<>>, 0)]
    /\ wordPointerFile = [state |-> "empty", data |-> NewWordPointer]
    /\ argShort = FALSE
    /\ argWords = FALSE
    /\ world = "none"
    /\ pc = "off"
    /\ RunIdleMemory
    /\ processed = {}
    /\ uploaded = {}
    /\ uploadedTwice = {}
    /\ blocksStarted = 0
    /\ lateCrash = FALSE
    /\ initialFile = NewPointer(<<>>, 0)

\* no check of the prober has been called
ClassifyIdle ==
    /\ dnsCall = [called |-> FALSE]
    /\ httpCall = [called |-> FALSE]

\* nothing of the prober has run
ProbeIdle ==
    /\ worker_count = 0 /\ batchSize = 0 /\ resolver_state = <<>> /\ clock = 0
    /\ nextCand = 0 /\ thr = <<>> /\ aggregated = <<>>
    /\ dnsAttempts = 0 /\ selectedAt = <<>>
    /\ halted = FALSE
    /\ futures = <<>> /\ probePayload = [built |-> FALSE]

RRIdle ==
    /\ rrPointer = <<>> /\ rrIndex = 0 /\ rrSelected = 0 /\ rrWaited = <<>>
    /\ rrStopped = FALSE

ProberIdle == ClassifyIdle /\ ProbeIdle /\ RRIdle

InitCodec == CodecInit /\ GenIdle /\ WordIdle /\ AggrIdle /\ MigIdle /\ RunIdle /\ ProberIdle
NextCodec == Encode /\ UNCHANGED <<genVars, wordVars, aggrVars, migVars, runVars, proberVars>>
SpecCodec == InitCodec /\ [][NextCodec]_vars

-----------------------------------------------------------------------------
(* Specification SpecGen: repeated calls of generate_batch_for_length on    *)
(* one cursor, fresh or as left by migrate_to_v2                            *)

GenTlds == << <<"x">>, <<"y">>, <<"z">>, <<"w">> >>

\* the cursors migrate_to_v2 creates for length L
GenStarts(charset, L, tlds) ==
    LET total == Pow(Len(charset), L) IN
    {migrate_to_v2([NewPointer(charset, L) EXCEPT
                        !.length = k, !.tld_index = t, !.index = i],
                   tlds).length_states[Str(L)] :
        k \in 1..(L + 1),
        t \in 0..Max(0, Len(tlds) - 1),
        i \in {0, 1, total - 1, total} \cap 0..total}

GenInit ==
    \E c \in 0..MaxGenCharset, L \in 1..MaxGenLen, n \in 0..MaxGenTlds :
        /\ genCharset = SubSeq(CHARSET, 1, c)
        /\ genLength = L
        /\ genTlds = SubSeq(GenTlds, 1, n)
        /\ genStart \in GenStarts(genCharset, L, genTlds)
        /\ length_state = genStart
        /\ genBatch = <<>>
        /\ genEmitted = <<>>
        /\ genCalls = 0
        /\ genLastSize = 0

GenCall(batch_size) ==
    LET r == generate_batch_for_length(length_state, genLength, genCharset,
                                       genTlds, batch_size)
    IN  /\ length_state' = r.state
        /\ genBatch' = r.batch
        /\ genEmitted' = genEmitted \o r.batch
        /\ genCalls' = Min(genCalls + 1, MaxCallsCounted)
        /\ genLastSize' = batch_size
        /\ UNCHANGED <<genCharset, genLength, genTlds, genStart>>

InitGen == GenInit /\ codecCall = CodecIdle /\ WordIdle /\ AggrIdle /\ MigIdle /\ RunIdle /\ ProberIdle
NextGen ==
    (\E n \in 1..MaxBatch : GenCall(n))
        /\ UNCHANGED <<codecVars, wordVars, aggrVars, migVars, runVars, proberVars>>
SpecGen == InitGen /\ [][NextGen]_vars

-----------------------------------------------------------------------------
(* Specification SpecWord: the block loop in word-only mode, reduced to its *)
(* generation step and its test for an empty batch                          *)

WordList == << <<"g", "o">>, <<"c", "a", "t">>, <<"a">>, <<"u", "p">> >>

WordInit ==
    \E n \in 0..MaxWords, m \in 1..MaxWordTlds :
        /\ words = SubSeq(WordList, 1, n)
        /\ wordTlds = SubSeq(GenTlds, 1, m)
        /\ \E i \in 0..(n + 1) :
              /\ word_pointer = [NewWordPointer EXCEPT !.index = i]
              /\ wordStart = i
        /\ wordBatch = <<>>
        /\ wordCount = 0
        /\ wordProduced = 0
        /\ wordCalls = 0
        /\ wordStopped = FALSE

\* one block in words mode: generate the batch, stop if it is empty
WordBlock(block_count) ==
    /\ ~wordStopped
    /\ wordCalls < MaxWordCalls
    /\ LET r == generate_word_batch(word_pointer, words, wordTlds, block_count)
       IN  /\ word_pointer' = r.word_pointer
           /\ wordBatch' = r.batch
           /\ wordStopped' = (r.batch = <<>>)
           /\ wordProduced' = wordProduced + Len(r.batch)
    /\ wordCount' = block_count
    /\ wordCalls' = wordCalls + 1
    /\ UNCHANGED <<words, wordTlds, wordStart>>

InitWord == WordInit /\ codecCall = CodecIdle /\ GenIdle /\ AggrIdle /\ MigIdle /\ RunIdle /\ ProberIdle
NextWord ==
    (\E n \in 1..MaxWordCount : WordBlock(n))
        /\ UNCHANGED <<codecVars, genVars, aggrVars, migVars, runVars, proberVars>>
SpecWord == InitWord /\ [][NextWord]_vars

-----------------------------------------------------------------------------
(* Specification SpecAggr: the results of one block reach update_aggregates *)
(* in any order, then the payload is built                                  *)

\* what process_domain can return for the DNS and the HTTP phase
Unregistered ==
    [dns_info |-> [registered |-> FALSE, has_dns |-> FALSE, resolver_error |-> FALSE],
     http_info |-> [usage_state |-> "no_website", product_state |-> "unknown"]]
Parked ==
    [dns_info |-> [registered |-> TRUE, has_dns |-> TRUE, resolver_error |-> FALSE],
     http_info |-> [usage_state |-> "parked_or_placeholder", product_state |-> "unknown"]]
ActiveSite ==
    [dns_info |-> [registered |-> TRUE, has_dns |-> TRUE, resolver_error |-> FALSE],
     http_info |-> [usage_state |-> "active_site", product_state |-> "unknown"]]

AggrLengths == {1, 2}

\* results of short blocks (track_length_stats, no part of speech) and of
\* words blocks (a part of speech, no length stats)
Results ==
    {[tld |-> t, length |-> L, class |-> c, track |-> TRUE, pos |-> <<>>] :
        t \in {PointerTlds[1], PointerTlds[2]}, L \in AggrLengths,
        c \in {Unregistered, Parked, ActiveSite}}
    \cup
    {[tld |-> PointerTlds[2], length |-> L, class |-> c, track |-> FALSE,
      pos |-> <<"n", "o", "u", "n">>] :
        L \in AggrLengths, c \in {Unregistered, Parked}}

Feed(a, r) ==
    update_aggregates(a, r.tld, r.length, r.class.dns_info, r.class.http_info,
                      r.track, r.pos)

AggrInit ==
    /\ aggr = init_aggregates
    /\ aggrFed = <<>>
    /\ aggrPayload = <<>>

\* one result of the block is aggregated
Update(r) ==
    /\ aggrPayload = <<>>
    /\ Len(aggrFed) < MaxResults
    /\ aggr' = Feed(aggr, r)
    /\ aggrFed' = Append(aggrFed, r)
    /\ UNCHANGED aggrPayload

BlockDate == <<"2", "0", "2", "5">>

\* the payload of the block is built
BuildPayload ==
    /\ aggrPayload = <<>>
    /\ aggrPayload' = build_payload(BlockDate, aggr)
    /\ UNCHANGED <<aggr, aggrFed>>

InitAggr == AggrInit /\ codecCall = CodecIdle /\ GenIdle /\ WordIdle /\ MigIdle /\ RunIdle /\ ProberIdle
NextAggr ==
    ((\E r \in Results : Update(r)) \/ BuildPayload)
        /\ UNCHANGED <<codecVars, genVars, wordVars, migVars, runVars, proberVars>>
SpecAggr == InitAggr /\ [][NextAggr]_vars

-----------------------------------------------------------------------------
(* Specification SpecMigrate: migrate_to_v2 on a legacy (version 1) Pointer *)

MigInit ==
    \E c \in 1..2, M \in 0..MaxMigLen :
        \E k \in 0..(M + 1), t \in -1..Len(PointerTlds), i \in -1..MaxMigIndex :
            /\ migLegacy = [NewPointer(SubSeq(CHARSET, 1, c), M) EXCEPT
                                !.length = k, !.tld_index = t, !.index = i]
            /\ migPointer = migLegacy
            /\ migCalled = FALSE

Migrate ==
    /\ ~migCalled
    /\ migPointer' = migrate_to_v2(migPointer, PointerTlds)
    /\ migCalled' = TRUE
    /\ UNCHANGED migLegacy

InitMigrate == MigInit /\ codecCall = CodecIdle /\ GenIdle /\ WordIdle /\ AggrIdle /\ RunIdle /\ ProberIdle
NextMigrate ==
    Migrate /\ UNCHANGED <<codecVars, genVars, wordVars, aggrVars, runVars, proberVars>>
SpecMigrate == InitMigrate /\ [][NextMigrate]_vars

-----------------------------------------------------------------------------
(* The block loop of run(): loading, one block, saving *)

\* random.randint(25, 80)
MinBlockCount == 25
MaxBlockCount == 80

RECURSIVE IntOf(_)
\* int(key) for a key made of decimal digits
IntOf(key) ==
    IF key = <<>> THEN 0
    ELSE IntOf(SubSeq(key, 1, Len(key) - 1)) * 10
         + (CHOOSE d \in 1..10 : Digits[d] = key[Len(key)]) - 1

\* a mutant: the per-length map is rebuilt from the legacy fields on every load
Load_alwaysmigrate(file) == migrate_to_v2(file.data, PointerTlds)

\* Pointer.load() on a file that holds a complete record
Load(file) ==
    IF file.data.version < 2 \/ file.data.length_states = <<>>
      THEN migrate_to_v2(file.data, PointerTlds)
    ELSE file.data

\* WordPointer.load() on a file that holds a complete record
LoadWordPointer(file) == file.data

\* domain.split(".")[0]
Label(domain) ==
    LET dots == {i \in DOMAIN domain : domain[i] = "."} IN
    IF dots = {} THEN domain
    ELSE SubSeq(domain, 1, (CHOOSE i \in dots : \A j \in dots : i <= j) - 1)

\* sorted list of a set of integers
SortedList(S) ==
    [k \in 1..Cardinality(S) |->
        CHOOSE x \in S : Cardinality({y \in S : y < x}) = k - 1]

\* the unfinished lengths of the pointer, sorted
UnfinishedLengths(ptr) ==
    SortedList({IntOf(key) : key \in
        {k \in DOMAIN ptr.length_states :
            /\ ~ptr.length_states[k].done
            /\ 1 <= IntOf(k) /\ IntOf(k) <= ptr.max_length}})

\* what the DNS and HTTP phases find for a domain, by the state of the network
Classify(w, domain) ==
    IF w = "none" THEN Unregistered
    ELSE IF Label(domain)[1] = "a" THEN ActiveSite
    ELSE IF Label(domain)[1] = "b" THEN Parked
    ELSE Unregistered

\* load_word_pos_index(): word -> part of speech, "" when the word is not listed
WordPosIndex(label) ==
    IF label = <<"c", "a", "t">> THEN <<"n", "o", "u", "n">>
    ELSE IF label = <<"g", "o">> THEN <<"v", "e", "r", "b">>
    ELSE <<>>

\* process_domain: (domain, tld, label, length, dns_info, http_info)
process_domain(w, entry) ==
    [domain |-> entry[1], tld |-> entry[2], label |-> Label(entry[1]),
     length |-> Len(Label(entry[1])),
     dns_info |-> Classify(w, entry[1]).dns_info,
     http_info |-> Classify(w, entry[1]).http_info]

RECURSIVE AggregateBatch(_, _, _, _)
\* the sequential loop over the batch: probe a candidate, aggregate its result.
\* The test on the tracked count is always true: it makes TLC evaluate the
\* aggregates after each candidate instead of all of them at the end.
AggregateBatch(a, entries, mode, w) ==
    IF entries = <<>> THEN a
    ELSE LET r == process_domain(w, Head(entries))
             pos_label == IF mode = "words" THEN WordPosIndex(r.label) ELSE <<>>
             updated == update_aggregates(a, r.tld, r.length, r.dns_info,
                                          r.http_info, mode = "short", pos_label)
         IN  IF updated.global.domains_tracked_lifetime > 0
               THEN AggregateBatch(updated, Tail(entries), mode, w)
             ELSE updated

-----------------------------------------------------------------------------
(* Specification SpecRun: run() with W = 0, its two cursor files, crashes    *)
(* of the process and restarts.  Locals that are dead at the end of a block *)
(* (batch, aggr, payload, status_code) are cleared there.                   *)

RunCharset == SubSeq(CHARSET, 1, 5)

\* the cursor files the runs start from: a first-run pointer and a legacy
\* pointer in the middle of length 1, both over "abcde" with max_length 2
RunPointerFiles ==
    {[NewPointer(RunCharset, 2) EXCEPT !.length = 1, !.tld_index = t, !.index = i] :
        <<t, i>> \in {<<0, 0>>, <<3, 2>>}}

RunWords == SubSeq(WordList, 1, 2)

BlockCounts == {MinBlockCount, MaxBlockCount}

\* what upload_aggregate returns as status: success, HTTP error, and 0 for a
\* URLError and for a dry run
UploadStatuses == {200, 500, 0}

\* the states of the network the runs are checked in
RunWorlds == {"mixed"}

EmptyFile(data) == [state |-> "empty", data |-> data]

RunInit ==
    /\ initialFile \in RunPointerFiles
    /\ pointerFile = [state |-> "ok", data |-> initialFile]
    /\ wordPointerFile = [state |-> "ok", data |-> NewWordPointer]
    /\ argShort \in BOOLEAN
    /\ argWords \in BOOLEAN
    /\ world \in RunWorlds
    /\ pc = "off"
    /\ RunIdleMemory
    /\ words = RunWords
    /\ word_pointer = NewWordPointer
    /\ processed = {}
    /\ uploaded = {}
    /\ uploadedTwice = {}
    /\ blocksStarted = 0
    /\ lateCrash = FALSE

\* the run leaves the variables of the other specifications alone
RunFrame == UNCHANGED <<codecVars, genVars, aggrVars, migVars, wordHarnessVars, proberVars>>

ClearBlockLocals ==
    /\ blockBatch' = <<>>
    /\ blockAggr' = init_aggregates
    /\ payload' = <<>>
    /\ status_code' = 0

\* run() up to the top of the loop: both cursors are loaded, the modes set
Start ==
    /\ pc \in {"off", "stopped", "died"}
    /\ pointerFile.state = "ok"
    /\ wordPointerFile.state = "ok"
    /\ pointer' = Load(pointerFile)
    /\ word_pointer' = LoadWordPointer(wordPointerFile)
    /\ use_short' = (argShort \/ ~argWords)
    /\ use_words' = argWords
    /\ next_mode' = IF argShort \/ ~argWords THEN "short" ELSE "words"
    /\ next_length_rr_index' = 0
    /\ mode_for_block' = "short"
    /\ block_index' = 0
    /\ ClearBlockLocals
    /\ pc' = "loop"
    /\ UNCHANGED <<pointerFile, wordPointerFile, argShort, argWords, world, words,
                   processed, uploaded, uploadedTwice, blocksStarted, lateCrash, initialFile>>
    /\ RunFrame

\* the mode of the block, from next_mode and the enabled modes
ModeForBlock ==
    IF next_mode = "short" /\ ~use_short /\ use_words THEN "words"
    ELSE IF next_mode = "words" /\ ~use_words /\ use_short THEN "short"
    ELSE next_mode

\* top of a block: its size, its mode, its batch; the loop ends on an empty batch
Generate(block_count) ==
    /\ pc = "loop"
    /\ blocksStarted < MaxBlocks
    /\ blocksStarted' = blocksStarted + 1
    /\ block_index' = block_index + 1
    /\ mode_for_block' = ModeForBlock
    /\ blockAggr' = init_aggregates
    /\ IF ModeForBlock = "short"
         THEN LET unfinished_lengths == UnfinishedLengths(pointer) IN
              IF unfinished_lengths # <<>>
                THEN LET length_for_block ==
                             unfinished_lengths[(next_length_rr_index
                                                   % Len(unfinished_lengths)) + 1]
                         r == generate_batch_for_length(
                                  pointer.length_states[Str(length_for_block)],
                                  length_for_block, pointer.charset, PointerTlds,
                                  block_count)
                     IN  /\ pointer' = [pointer EXCEPT
                               !.batch_size = block_count,
                               !.length_states[Str(length_for_block)] = r.state]
                         /\ next_length_rr_index' = next_length_rr_index + 1
                         /\ blockBatch' = r.batch
                         /\ pc' = IF r.batch = <<>> THEN "stopped" ELSE "probe"
                         /\ UNCHANGED word_pointer
              ELSE /\ pointer' = [pointer EXCEPT !.batch_size = block_count]
                   /\ blockBatch' = <<>>
                   /\ pc' = "stopped"
                   /\ UNCHANGED <<next_length_rr_index, word_pointer>>
       ELSE LET r == generate_word_batch(word_pointer, words, PointerTlds, block_count)
            IN  /\ word_pointer' = r.word_pointer
                /\ blockBatch' = r.batch
                /\ pc' = IF r.batch = <<>> THEN "stopped" ELSE "probe"
                /\ UNCHANGED <<pointer, next_length_rr_index>>
    /\ UNCHANGED <<pointerFile, wordPointerFile, argShort, argWords, world, words,
                   use_short, use_words, next_mode, payload, status_code,
                   processed, uploaded, uploadedTwice, lateCrash, initialFile>>
    /\ RunFrame

\* every candidate of the batch is probed and aggregated, the payload is built
ProbeBlock ==
    /\ pc = "probe"
    /\ LET a == AggregateBatch(blockAggr, blockBatch, mode_for_block, world) IN
       /\ blockAggr' = a
       /\ payload' = build_payload(BlockDate, a)
    /\ pc' = "upload"
    /\ UNCHANGED <<pointerFile, wordPointerFile, argShort, argWords, world, words,
                   pointer, word_pointer, use_short, use_words, next_mode,
                   next_length_rr_index, mode_for_block, blockBatch, status_code,
                   processed, uploaded, uploadedTwice, blocksStarted, lateCrash, block_index, initialFile>>
    /\ RunFrame

\* a mutant: after the upload the pointer is not saved, only the word pointer
Upload_skipsave(status) ==
    /\ pc = "upload"
    /\ status_code' = status
    /\ LET sent == IF mode_for_block = "short" THEN Range(blockBatch) ELSE {} IN
       /\ uploadedTwice' = uploadedTwice \cup (sent \cap uploaded)
       /\ uploaded' = uploaded \cup sent
    /\ pc' = "save_word"
    /\ UNCHANGED <<pointerFile, wordPointerFile, argShort, argWords, world, words,
                   pointer, word_pointer, use_short, use_words, next_mode,
                   next_length_rr_index, mode_for_block, blockBatch, blockAggr,
                   payload, processed, blocksStarted, lateCrash, block_index, initialFile>>
    /\ RunFrame

\* upload_aggregate returns, whatever became of the payload
Upload(status) ==
    /\ pc = "upload"
    /\ status_code' = status
    /\ LET sent == IF mode_for_block = "short" THEN Range(blockBatch) ELSE {} IN
       /\ uploadedTwice' = uploadedTwice \cup (sent \cap uploaded)
       /\ uploaded' = uploaded \cup sent
    /\ pc' = "save"
    /\ UNCHANGED <<pointerFile, wordPointerFile, argShort, argWords, world, words,
                   pointer, word_pointer, use_short, use_words, next_mode,
                   next_length_rr_index, mode_for_block, blockBatch, blockAggr,
                   payload, processed, blocksStarted, lateCrash, block_index, initialFile>>
    /\ RunFrame

\* upload_aggregate raises: a dropped connection (RemoteDisconnected) or a
\* timeout while the response is read is neither HTTPError nor URLError, and
\* run does not catch it; the payload had been sent.  The process is over.
UploadRaises ==
    /\ pc = "upload"
    /\ LET sent == IF mode_for_block = "short" THEN Range(blockBatch) ELSE {} IN
       /\ uploadedTwice' = uploadedTwice \cup (sent \cap uploaded)
       /\ uploaded' = uploaded \cup sent
    /\ lateCrash' = TRUE
    /\ pc' = "died"
    /\ pointer' = NewPointer(<<>>, 0)
    /\ word_pointer' = NewWordPointer
    /\ use_short' = FALSE
    /\ use_words' = FALSE
    /\ next_mode' = "short"
    /\ next_length_rr_index' = 0
    /\ mode_for_block' = "short"
    /\ block_index' = 0
    /\ ClearBlockLocals
    /\ UNCHANGED <<pointerFile, wordPointerFile, argShort, argWords, world, words,
                   processed, blocksStarted, initialFile>>
    /\ RunFrame

\* pointer.save(): open(POINTER_FILE, "w") truncates the file
SavePointerOpen ==
    /\ pc = "save"
    /\ pointerFile' = EmptyFile(NewPointer(<<>>, 0))
    /\ pc' = "save_write"
    /\ UNCHANGED <<wordPointerFile, argShort, argWords, world, words,
                   pointer, word_pointer, use_short, use_words, next_mode,
                   next_length_rr_index, mode_for_block, blockBatch, blockAggr,
                   payload, status_code, processed, uploaded, uploadedTwice,
                   blocksStarted, lateCrash, block_index, initialFile>>
    /\ RunFrame

\* pointer.save(): json.dump and the close of the file
SavePointerWrite ==
    /\ pc = "save_write"
    /\ pointerFile' = [state |-> "ok", data |-> pointer]
    /\ processed' = processed \cup
                      (IF mode_for_block = "short" THEN Range(blockBatch) ELSE {})
    /\ pc' = "save_word"
    /\ UNCHANGED <<wordPointerFile, argShort, argWords, world, words,
                   pointer, word_pointer, use_short, use_words, next_mode,
                   next_length_rr_index, mode_for_block, blockBatch, blockAggr,
                   payload, status_code, uploaded, uploadedTwice, blocksStarted, lateCrash, block_index, initialFile>>
    /\ RunFrame

\* word_pointer.save(): open(WORDS_POINTER_FILE, "w") truncates the file
SaveWordOpen ==
    /\ pc = "save_word"
    /\ wordPointerFile' = EmptyFile(NewWordPointer)
    /\ pc' = "save_word_write"
    /\ UNCHANGED <<pointerFile, argShort, argWords, world, words,
                   pointer, word_pointer, use_short, use_words, next_mode,
                   next_length_rr_index, mode_for_block, blockBatch, blockAggr,
                   payload, status_code, processed, uploaded, uploadedTwice,
                   blocksStarted, lateCrash, block_index, initialFile>>
    /\ RunFrame

\* a mutant: the mode is not flipped at the end of the block
SaveWordWrite_noflip ==
    /\ pc = "save_word_write"
    /\ wordPointerFile' = [state |-> "ok", data |-> word_pointer]
    /\ ClearBlockLocals
    /\ pc' = "loop"
    /\ UNCHANGED <<pointerFile, argShort, argWords, world, words,
                   pointer, word_pointer, use_short, use_words, next_mode,
                   next_length_rr_index, mode_for_block,
                   processed, uploaded, uploadedTwice, blocksStarted, lateCrash, block_index, initialFile>>
    /\ RunFrame

\* word_pointer.save() completes; the mode is flipped; the block is over
SaveWordWrite ==
    /\ pc = "save_word_write"
    /\ wordPointerFile' = [state |-> "ok", data |-> word_pointer]
    /\ next_mode' = IF use_short /\ use_words
                      THEN (IF mode_for_block = "short" THEN "words" ELSE "short")
                    ELSE next_mode
    /\ ClearBlockLocals
    /\ pc' = "loop"
    /\ UNCHANGED <<pointerFile, argShort, argWords, world, words,
                   pointer, word_pointer, use_short, use_words,
                   next_length_rr_index, mode_for_block,
                   processed, uploaded, uploadedTwice, blocksStarted, lateCrash, block_index, initialFile>>
    /\ RunFrame

\* the process is killed: what it held in memory is gone, the files stay
Crash ==
    /\ pc \notin {"off", "stopped", "died"}
    /\ lateCrash' = (lateCrash \/ pc \in {"save", "save_write"})
    /\ pc' = "off"
    /\ pointer' = NewPointer(<<>>, 0)
    /\ word_pointer' = NewWordPointer
    /\ use_short' = FALSE
    /\ use_words' = FALSE
    /\ next_mode' = "short"
    /\ next_length_rr_index' = 0
    /\ mode_for_block' = "short"
    /\ block_index' = 0
    /\ ClearBlockLocals
    /\ UNCHANGED <<pointerFile, wordPointerFile, argShort, argWords, world, words,
                   processed, uploaded, uploadedTwice, blocksStarted,
                   initialFile>>
    /\ RunFrame

InitRun ==
    /\ RunInit
    /\ codecCall = CodecIdle /\ GenIdle /\ AggrIdle /\ MigIdle
    /\ wordTlds = <<>> /\ wordStart = 0 /\ wordBatch = <<>> /\ wordCount = 0
    /\ wordProduced = 0 /\ wordCalls = 0 /\ wordStopped = FALSE
    /\ ProberIdle
NextRun ==
    \/ Start
    \/ \E n \in BlockCounts : Generate(n)
    \/ ProbeBlock
    \/ \E st \in UploadStatuses : Upload(st)
    \/ UploadRaises
    \/ SavePointerOpen
    \/ SavePointerWrite
    \/ SaveWordOpen
    \/ SaveWordWrite
    \/ Crash
SpecRun == InitRun /\ [][NextRun]_vars

-----------------------------------------------------------------------------
(* Specification SpecClassify: one call of check_domain_dns or of           *)
(* check_domain_http, on a response drawn from the bounded sets             *)

\* what a resolver can do with a query
DnsResponses ==
    [transport : {"ok", "URLError", "timeout", "SSLError", "RemoteDisconnected"},
     status : {200, 204, 404, 500},
     location : {"none"},
     body : {"not_json", "array", "object"},
     has_Status : BOOLEAN,
     Status : {0, 3},
     Answer : {"missing", "empty", "records"}]

\* the first 4 KB of a page, by what check_domain_http looks for in it
Bodies ==
    {[blank |-> TRUE, phrases |-> {}]}
        \cup {[blank |-> FALSE, phrases |-> P] :
                 P \in SUBSET {"parked domain", "pricing"}}

\* the pages a redirect can lead to
Pages ==
    [transport : {"ok"}, status : {200, 404}, location : {"none"},
     html : BOOLEAN, body : Bodies]

\* what a web server can do with the request for https://domain
HttpResponses ==
    {r \in [transport : {"ok", "URLError", "RemoteDisconnected"},
            status : {200, 204, 301, 302, 404, 500},
            location : {"none", "page"},
            target : Pages,
            html : BOOLEAN,
            body : Bodies] :
        \/ r.location = "page" /\ r.status \in FollowedRedirects
        \/ r.location = "none"
             /\ r.target = [transport |-> "ok", status |-> 200, location |-> "none",
                            html |-> FALSE, body |-> [blank |-> TRUE, phrases |-> {}]]}

\* a behaviour of this specification is one call of one of the two checks
DnsCheck(resp) ==
    /\ ~dnsCall.called /\ ~httpCall.called
    /\ dnsCall' = [called |-> TRUE, resp |-> resp, result |-> check_domain_dns(resp)]
    /\ UNCHANGED httpCall

HttpCheck(resp) ==
    /\ ~dnsCall.called /\ ~httpCall.called
    /\ httpCall' = [called |-> TRUE, resp |-> resp, result |-> check_domain_http(resp)]
    /\ UNCHANGED dnsCall

InitClassify ==
    /\ ClassifyIdle /\ ProbeIdle /\ RRIdle
    /\ codecCall = CodecIdle /\ GenIdle /\ WordIdle /\ AggrIdle /\ MigIdle /\ RunIdle
NextClassify ==
    ((\E resp \in DnsResponses : DnsCheck(resp))
        \/ (\E resp \in HttpResponses : HttpCheck(resp)))
        /\ UNCHANGED <<codecVars, genVars, wordVars, aggrVars, migVars, runVars, probeVars, rrVars>>
SpecClassify == InitClassify /\ [][NextClassify]_vars

-----------------------------------------------------------------------------
(* Specification SpecProbe: the probe of one block.  With W = 0 the main    *)
(* thread calls process_domain for each candidate in turn; with W > 0 the   *)
(* threads of the pool do, and every statement of process_domain and        *)
(* pick_resolver that reads or writes resolver_state is a step of its own.  *)

WorkerCounts == {0, 2}

\* with a thread pool: the sizes of the block and of the resolver pool
PoolBatchSizes == {2}
PoolResolverCounts == {1, 2}

\* min_delay_ms of a resolver: no delay (the default) or a delay
Delays == {0, 1}

\* the values of now_ms() during the block
Times == {0, 1}

\* the threads that call process_domain: the main thread (1) or the pool
Threads == 1..Max(1, worker_count)

Resolvers == DOMAIN resolver_state

\* what a resolver does with one query: drop the connection, answer 500,
\* answer NOERROR with records, answer NXDOMAIN
ProbeDnsResponses ==
    {[transport |-> "RemoteDisconnected", status |-> 200, location |-> "none",
      body |-> "object", has_Status |-> TRUE, Status |-> 0, Answer |-> "records"],
     [transport |-> "ok", status |-> 500, location |-> "none",
      body |-> "not_json", has_Status |-> FALSE, Status |-> 0, Answer |-> "missing"],
     [transport |-> "ok", status |-> 200, location |-> "none",
      body |-> "object", has_Status |-> TRUE, Status |-> 0, Answer |-> "records"],
     [transport |-> "ok", status |-> 200, location |-> "none",
      body |-> "object", has_Status |-> TRUE, Status |-> 3, Answer |-> "missing"]}

\* what the web server of a registered domain does: serve a page, or fail
ProbeHttpResponses ==
    {[transport |-> tr, status |-> 200, location |-> "none",
      target |-> [transport |-> "ok", status |-> 200, location |-> "none",
                  html |-> FALSE, body |-> [blank |-> TRUE, phrases |-> {}]],
      html |-> TRUE, body |-> [blank |-> FALSE, phrases |-> {"pricing"}]] :
        tr \in {"ok", "URLError"}}

\* a thread outside process_domain.  tried, path, prior and gap record, for the
\* candidate in hand, the resolvers its attempts went to and, for the latest
\* selection, its path through pick_resolver and the time since the resolver
\* was last selected
\* a future whose call has not returned; one that as_completed has yielded
FuturePending == [state |-> "pending", result |-> <<>>]
FutureYielded == [state |-> "yielded", result |-> <<>>]

ThreadIdle == [pc |-> "idle", cand |-> 0, attempt |-> 0, now |-> 0, idx |-> 0,
               dns_info |-> [resolver_error |-> TRUE], tmp |-> 0,
               tried |-> <<>>, path |-> "none", prior |-> FALSE, gap |-> 0]

ProbeInit ==
    /\ worker_count \in WorkerCounts
    /\ batchSize \in (IF worker_count = 0 THEN 1..MaxProbeBatch ELSE PoolBatchSizes)
    /\ \E n \in (IF worker_count = 0 THEN 1..MaxResolvers ELSE PoolResolverCounts) :
          /\ resolver_state \in
                [0..(n - 1) -> [min_delay_ms : Delays, last_used_ms : {0}, ok : {0}, err : {0}]]
          /\ selectedAt = [i \in 0..(n - 1) |-> -1]
    /\ clock = 0
    /\ nextCand = 1
    /\ thr = [t \in Threads |-> ThreadIdle]
    /\ aggregated = <<>>
    /\ dnsAttempts = 0
    /\ halted = FALSE
    /\ futures = [c \in (IF worker_count = 0 THEN {} ELSE 1..batchSize) |-> FuturePending]
    /\ probePayload = [built |-> FALSE]

ProbeFrame == UNCHANGED <<codecVars, genVars, wordVars, aggrVars, migVars, runVars, classifyVars, rrVars>>

\* an exception in the main thread ends the run; a pool thread goes on with
\* the next submitted call
Runs(t) == t \in DOMAIN thr /\ (worker_count > 0 \/ ~halted)

RECURSIVE FirstEligible_strict(_, _, _)
\* a mutant: the delay has to be exceeded
FirstEligible_strict(state, now, idx) ==
    IF idx \notin DOMAIN state THEN -1
    ELSE IF state[idx].min_delay_ms <= 0 \/ now - state[idx].last_used_ms > state[idx].min_delay_ms
      THEN idx
    ELSE FirstEligible_strict(state, now, idx + 1)

\* the first pass of pick_resolver: the first resolver without delay or whose
\* delay has elapsed, -1 if there is none
RECURSIVE FirstEligible(_, _, _)
FirstEligible(state, now, idx) ==
    IF idx \notin DOMAIN state THEN -1
    ELSE IF state[idx].min_delay_ms <= 0 \/ now - state[idx].last_used_ms >= state[idx].min_delay_ms
      THEN idx
    ELSE FirstEligible(state, now, idx + 1)

\* the candidate is handed to process_domain
Begin(t) ==
    /\ Runs(t) /\ thr[t].pc = "idle"
    /\ nextCand <= batchSize
    /\ thr' = [thr EXCEPT ![t] = [ThreadIdle EXCEPT !.pc = "pick", !.cand = nextCand]]
    /\ nextCand' = nextCand + 1
    /\ UNCHANGED <<futures, probePayload, worker_count, batchSize, resolver_state, clock, aggregated,
                   dnsAttempts, selectedAt, halted>>
    /\ ProbeFrame

\* pick_resolver up to the choice of chosen_idx
PickRead(t) ==
    /\ Runs(t) /\ thr[t].pc = "pick"
    /\ LET first == FirstEligible(resolver_state, clock, 0) IN
         thr' = [thr EXCEPT ![t].pc = "pick_write",
                            ![t].now = clock,
                            ![t].idx = IF first = -1 THEN 0 ELSE first,
                            ![t].path = IF first = -1 THEN "fallback" ELSE "first"]
    /\ UNCHANGED <<futures, probePayload, worker_count, batchSize, resolver_state, clock, nextCand, aggregated,
                   dnsAttempts, selectedAt, halted>>
    /\ ProbeFrame

\* pick_resolver: resolver_state[chosen_idx]["last_used_ms"] = now, return
PickWrite(t) ==
    /\ Runs(t) /\ thr[t].pc = "pick_write"
    /\ resolver_state' = [resolver_state EXCEPT ![thr[t].idx].last_used_ms = thr[t].now]
    /\ selectedAt' = [selectedAt EXCEPT ![thr[t].idx] = Max(@, thr[t].now)]
    /\ thr' = [thr EXCEPT ![t].pc = "dns",
                          ![t].now = 0,
                          ![t].prior = selectedAt[thr[t].idx] # -1,
                          ![t].gap = IF selectedAt[thr[t].idx] = -1 THEN 0
                                     ELSE thr[t].now - selectedAt[thr[t].idx]]
    /\ UNCHANGED <<futures, probePayload, worker_count, batchSize, clock, nextCand, aggregated, dnsAttempts, halted>>
    /\ ProbeFrame

\* dns_info = check_domain_dns(domain, resolver)
Dns(t, resp) ==
    /\ Runs(t) /\ thr[t].pc = "dns"
    /\ dnsAttempts' = dnsAttempts + 1
    /\ LET r == check_domain_dns(resp) IN
         IF r.raised # "none"
           THEN IF worker_count > 0
                  THEN /\ futures' = [futures EXCEPT ![thr[t].cand].state = "raised"]
                       /\ thr' = [thr EXCEPT ![t] = ThreadIdle]
                       /\ halted' = halted
                  ELSE /\ halted' = TRUE
                       /\ thr' = [thr EXCEPT ![t] = [ThreadIdle EXCEPT !.pc = "raised"]]
                       /\ UNCHANGED futures
           ELSE /\ UNCHANGED <<halted, futures>>
                /\ thr' = [thr EXCEPT ![t].pc = "count_read", ![t].dns_info = r.value,
                                      ![t].tried = Append(@, thr[t].idx),
                                      ![t].path = "none", ![t].prior = FALSE, ![t].gap = 0]
    /\ UNCHANGED <<worker_count, batchSize, resolver_state, clock, nextCand, aggregated,
                   selectedAt, probePayload>>
    /\ ProbeFrame

\* the counter the attempt increments
Counter(t) == IF DictGet(thr[t].dns_info, "resolver_error", FALSE) THEN "err" ELSE "ok"

\* resolver_state[idx]["err"] += 1 and ["ok"] += 1: the read of the counter
CountRead(t) ==
    /\ Runs(t) /\ thr[t].pc = "count_read"
    /\ thr' = [thr EXCEPT ![t].pc = "count_write",
                          ![t].tmp = resolver_state[thr[t].idx][Counter(t)]]
    /\ UNCHANGED <<futures, probePayload, worker_count, batchSize, resolver_state, clock, nextCand, aggregated,
                   dnsAttempts, selectedAt, halted>>
    /\ ProbeFrame

\* ... and the write of the incremented value, then continue or break
CountWrite(t) ==
    /\ Runs(t) /\ thr[t].pc = "count_write"
    /\ resolver_state' = [resolver_state EXCEPT ![thr[t].idx][Counter(t)] = thr[t].tmp + 1]
    /\ thr' = [thr EXCEPT ![t].attempt = @ + 1,
                          ![t].tmp = 0,
                          ![t].idx = 0,
                          ![t].pc = IF Counter(t) = "err" /\ thr[t].attempt + 1 < Cardinality(Resolvers)
                                      THEN "pick" ELSE "conclude"]
    /\ UNCHANGED <<futures, probePayload, worker_count, batchSize, clock, nextCand, aggregated, dnsAttempts,
                   selectedAt, halted>>
    /\ ProbeFrame

\* the result of a call is passed to update_aggregates unless the run has ended
Aggregated(result) == IF halted THEN aggregated ELSE Append(aggregated, result)

\* process_domain returns: to the loop of the main thread, which calls
\* update_aggregates, or into the future of the call
Return(t, result) ==
    IF worker_count > 0
      THEN /\ futures' = [futures EXCEPT ![thr[t].cand] = [state |-> "done", result |-> <<result>>]]
           /\ UNCHANGED aggregated
      ELSE /\ aggregated' = Aggregated(result)
           /\ UNCHANGED futures

\* the end of the loop over the resolvers: the conservative classification
\* after errors only, and the decision to run the HTTP phase
Conclude_alwayshttp(t) ==
    /\ Runs(t) /\ thr[t].pc = "conclude"
    /\ thr' = [thr EXCEPT ![t].pc = "http",
                          ![t].dns_info =
                              IF DictGet(thr[t].dns_info, "resolver_error", FALSE)
                                THEN [registered |-> FALSE, has_dns |-> FALSE,
                                      resolver_error |-> TRUE]
                              ELSE thr[t].dns_info]
    /\ UNCHANGED <<futures, probePayload, worker_count, batchSize, resolver_state, clock, nextCand, aggregated,
                   dnsAttempts, selectedAt, halted>>
    /\ ProbeFrame

Conclude(t) ==
    /\ Runs(t) /\ thr[t].pc = "conclude"
    /\ LET dns_info == IF DictGet(thr[t].dns_info, "resolver_error", FALSE)
                         THEN [registered |-> FALSE, has_dns |-> FALSE, resolver_error |-> TRUE]
                       ELSE thr[t].dns_info
       IN IF DictGet(dns_info, "registered", FALSE)
            THEN /\ thr' = [thr EXCEPT ![t].pc = "http", ![t].dns_info = dns_info]
                 /\ UNCHANGED <<aggregated, futures>>
            ELSE /\ thr' = [thr EXCEPT ![t] = ThreadIdle]
                 /\ Return(t, [cand |-> thr[t].cand, dns_info |-> dns_info,
                                http_called |-> FALSE,
                                http_info |-> [usage_state |-> "no_website",
                                               product_state |-> "unknown"]])
    /\ UNCHANGED <<worker_count, batchSize, resolver_state, clock, nextCand,
                   dnsAttempts, selectedAt, halted, probePayload>>
    /\ ProbeFrame

\* http_info = check_domain_http(domain), return
Http(t, resp) ==
    /\ Runs(t) /\ thr[t].pc = "http"
    /\ Return(t, [cand |-> thr[t].cand, dns_info |-> thr[t].dns_info,
                   http_called |-> TRUE,
                   http_info |-> check_domain_http(resp)])
    /\ thr' = [thr EXCEPT ![t] = ThreadIdle]
    /\ UNCHANGED <<worker_count, batchSize, resolver_state, clock, nextCand,
                   dnsAttempts, selectedAt, halted, probePayload>>
    /\ ProbeFrame

\* for fut in as_completed(futures): fut.result() returns the result, which
\* goes to update_aggregates, or raises the exception of the call
Consume(c) ==
    /\ worker_count > 0 /\ ~halted /\ ~probePayload.built
    /\ c \in DOMAIN futures
    /\ futures[c].state \in {"done", "raised"}
    /\ futures' = [futures EXCEPT ![c] = FutureYielded]
    /\ IF futures[c].state = "raised"
         THEN halted' = TRUE /\ UNCHANGED aggregated
         ELSE aggregated' = Aggregated(futures[c].result[1]) /\ UNCHANGED halted
    /\ UNCHANGED <<worker_count, batchSize, resolver_state, clock, nextCand, thr,
                   dnsAttempts, selectedAt, probePayload>>
    /\ ProbeFrame

\* a mutant: the loop over the results ends once every candidate is handed out
LoopDone_handedout == nextCand > batchSize

\* the loop over the results of the block has ended: as_completed has yielded
\* every future, or the for loop over the batch has made its last call
LoopDone ==
    IF worker_count > 0
      THEN \A c \in DOMAIN futures : futures[c].state = "yielded"
    ELSE nextCand > batchSize /\ thr[1].pc = "idle"

\* the aggregate of the block: update_aggregates for each result in turn
RECURSIVE BlockAggregate(_)
BlockAggregate(results) ==
    IF results = <<>> THEN init_aggregates
    ELSE LET r == results[Len(results)] IN
           update_aggregates(BlockAggregate(SubSeq(results, 1, Len(results) - 1)),
                             PointerTlds[1], 1, r.dns_info, r.http_info, TRUE, <<>>)

\* payload = build_payload(date_str, aggr)
Payload ==
    /\ ~halted /\ ~probePayload.built
    /\ LoopDone
    /\ probePayload' =
          [built |-> TRUE,
           global |-> build_payload(BlockDate, BlockAggregate(aggregated)).global]
    /\ UNCHANGED <<worker_count, batchSize, resolver_state, clock, nextCand, thr,
                   aggregated, dnsAttempts, selectedAt, halted, futures>>
    /\ ProbeFrame

\* time passes
Tick ==
    /\ clock + 1 \in Times
    /\ clock' = clock + 1
    /\ UNCHANGED <<futures, probePayload, worker_count, batchSize, resolver_state, nextCand, thr, aggregated,
                   dnsAttempts, selectedAt, halted>>
    /\ ProbeFrame

InitProbe ==
    /\ ProbeInit /\ ClassifyIdle /\ RRIdle
    /\ codecCall = CodecIdle /\ GenIdle /\ WordIdle /\ AggrIdle /\ MigIdle /\ RunIdle
NextProbe ==
    \/ \E t \in DOMAIN thr : Begin(t)
    \/ \E t \in DOMAIN thr : PickRead(t)
    \/ \E t \in DOMAIN thr : PickWrite(t)
    \/ \E t \in DOMAIN thr, resp \in ProbeDnsResponses : Dns(t, resp)
    \/ \E t \in DOMAIN thr : CountRead(t)
    \/ \E t \in DOMAIN thr : CountWrite(t)
    \/ \E t \in DOMAIN thr : Conclude(t)
    \/ \E t \in DOMAIN thr, resp \in ProbeHttpResponses : Http(t, resp)
    \/ \E c \in DOMAIN futures : Consume(c)
    \/ Payload
    \/ Tick
SpecProbe == InitProbe /\ [][NextProbe]_vars

-----------------------------------------------------------------------------
(* Specification SpecLengths: the blocks of a run in short mode, reduced to *)
(* the choice of the length, the generation step and the test for an empty  *)
(* batch                                                                    *)

\* block sizes, small against the 5 candidates a length has over one symbol
RRBlockCounts == {1, 2, 5}

\* a mutant: always the first unfinished length
LengthForBlock_first(unfinished_lengths, rr) == unfinished_lengths[1]

\* unfinished_lengths[next_length_rr_index % len(unfinished_lengths)]
LengthForBlock(unfinished_lengths, rr) ==
    unfinished_lengths[(rr % Len(unfinished_lengths)) + 1]

\* Pointer.load() of a first-run or legacy record over a one-symbol charset
RRInit ==
    \E n \in 1..MaxRRLength, k \in 1..MaxRRLength :
        /\ k <= n
        /\ rrPointer = Load([state |-> "ok",
                             data |-> [NewPointer(SubSeq(CHARSET, 1, 1), n)
                                          EXCEPT !.length = k]])
        /\ rrIndex = 0
        /\ rrSelected = 0
        /\ rrWaited = [L \in 1..n |-> 0]
        /\ rrStopped = FALSE

\* one block in short mode: the length is chosen among the unfinished ones,
\* its batch generated; the loop stops on an empty batch
ShortBlock(block_count) ==
    /\ ~rrStopped
    /\ LET unfinished_lengths == UnfinishedLengths(rrPointer) IN
       IF unfinished_lengths # <<>>
         THEN LET length_for_block == LengthForBlock(unfinished_lengths, rrIndex)
                  r == generate_batch_for_length(
                           rrPointer.length_states[Str(length_for_block)],
                           length_for_block, rrPointer.charset, PointerTlds,
                           block_count)
              IN  /\ rrPointer' = [rrPointer EXCEPT
                         !.batch_size = block_count,
                         !.length_states[Str(length_for_block)] = r.state]
                  /\ rrIndex' = rrIndex + 1
                  /\ rrSelected' = length_for_block
                  /\ rrWaited' = [L \in DOMAIN rrWaited |->
                                    IF L = length_for_block
                                         \/ L \notin Range(unfinished_lengths)
                                      THEN 0 ELSE rrWaited[L] + 1]
                  /\ rrStopped' = (r.batch = <<>>)
       ELSE /\ rrPointer' = [rrPointer EXCEPT !.batch_size = block_count]
            /\ rrStopped' = TRUE
            /\ UNCHANGED <<rrIndex, rrSelected, rrWaited>>

InitLengths ==
    /\ RRInit /\ ClassifyIdle /\ ProbeIdle
    /\ codecCall = CodecIdle /\ GenIdle /\ WordIdle /\ AggrIdle /\ MigIdle /\ RunIdle
NextLengths ==
    (\E n \in RRBlockCounts : ShortBlock(n))
        /\ UNCHANGED <<codecVars, genVars, wordVars, aggrVars, migVars, runVars,
                       classifyVars, probeVars>>
SpecLengths == InitLengths /\ [][NextLengths]_vars

-----------------------------------------------------------------------------
(* Claims on the label codec and the per-length generator *)

RECURSIVE DecodeLabel(_, _)
\* positional base-C decoding of a label, most-significant symbol first
DecodeLabel(label, charset) ==
    IF label = <<>> THEN 0
    ELSE DecodeLabel(SubSeq(label, 1, Len(label) - 1), charset) * Len(charset)
         + (CHOOSE k \in 1..Len(charset) : charset[k] = label[Len(label)]) - 1

\* C4: index_to_label is a bijection from [0, C^L) onto the labels of length L:
\* the result has L symbols of the charset, decoding it most-significant symbol
\* first gives the index back, no other index of the range gives the same
\* label, and every label of length L is the image of an index of the range.
C4_CodecBijection ==
    codecCall.called =>
        LET cs == codecCall.charset
            L == codecCall.length
            N == Pow(Len(cs), L)
        IN  /\ Len(codecCall.label) = L
            /\ Range(codecCall.label) \subseteq Range(cs)
            /\ DecodeLabel(codecCall.label, cs) = codecCall.idx
            /\ \A j \in 0..(N - 1) :
                  j # codecCall.idx => index_to_label(j, L, cs) # codecCall.label
            /\ \A lab \in [1..L -> Range(cs)] :
                  /\ DecodeLabel(lab, cs) \in 0..(N - 1)
                  /\ index_to_label(DecodeLabel(lab, cs), L, cs) = lab

\* index 5, length 3 over "ab" has been encoded as "bab"
C4_Witness ==
    /\ codecCall.called
    /\ codecCall.idx = 5 /\ codecCall.length = 3
    /\ codecCall.charset = <<"a", "b">>
    /\ codecCall.label = <<"b", "a", "b">>

FreshCursor == [tld_index |-> 0, index |-> 0, done |-> FALSE]

\* the (domain, tld) pairs of [0, C^L) x TLDs
PairSet(L, charset, tlds) ==
    {<<Domain(index_to_label(i, L, charset), tlds[t]), tlds[t]>> :
        i \in 0..(Pow(Len(charset), L) - 1), t \in 1..Len(tlds)}

\* C1: from a fresh cursor and a non-empty TLD list, whatever the batch sizes,
\* the batches returned so far hold no pair twice and only pairs of
\* [0, C^L) x TLDs; a call that returns nothing leaves done = true (every
\* other call returns at least one new pair, so the calls end with done);
\* and once done is true every pair of the space has been returned.
C1_ExactPartition ==
    (genStart = FreshCursor /\ genTlds # <<>>) =>
        /\ \A i, j \in 1..Len(genEmitted) : i # j => genEmitted[i] # genEmitted[j]
        /\ Range(genEmitted) \subseteq PairSet(genLength, genCharset, genTlds)
        /\ (genCalls > 0 /\ genBatch = <<>>) => length_state.done
        /\ length_state.done =>
              Range(genEmitted) = PairSet(genLength, genCharset, genTlds)

\* a fresh cursor over "ab", length 2 and two TLDs is done after several calls,
\* the last of which found the space exhausted
C1_Witness ==
    /\ genStart = FreshCursor
    /\ genCharset = <<"a", "b">> /\ genLength = 2 /\ Len(genTlds) = 2
    /\ length_state.done
    /\ Len(genEmitted) = 8
    /\ genCalls = MaxCallsCounted
    /\ genLastSize = 3

\* the scenario of C2 has happened: one call with batch size 10 on a fresh
\* cursor over charset "ab", length 1 and TLDs ["x", "y"]
C2_Scenario ==
    /\ genCharset = <<"a", "b">> /\ genLength = 1
    /\ genTlds = << <<"x">>, <<"y">> >>
    /\ genStart = FreshCursor
    /\ genCalls = 1 /\ genLastSize = 10

\* C2 as stated: the batch is [a.x, a.y, b.x, b.y] and done = true
C2_Original ==
    C2_Scenario =>
        /\ genBatch = << <<<<"a", ".", "x">>, <<"x">>>>, <<<<"a", ".", "y">>, <<"y">>>>,
                         <<<<"b", ".", "x">>, <<"x">>>>, <<<<"b", ".", "y">>, <<"y">>>> >>
        /\ length_state.done

\* C2, amended: with charset "ab", length 1, TLDs ["x", "y"] and batch size 10,
\* one call on a fresh cursor returns the ordered batch [a.x, b.x, a.y, b.y]
\* (all labels under the first TLD, then all under the second) and leaves
\* done = true.
C2_TldMajorBatch ==
    C2_Scenario =>
        /\ genBatch = << <<<<"a", ".", "x">>, <<"x">>>>, <<<<"b", ".", "x">>, <<"x">>>>,
                         <<<<"a", ".", "y">>, <<"y">>>>, <<<<"b", ".", "y">>, <<"y">>>> >>
        /\ length_state.done

C2_Witness == C2_Scenario /\ Len(genBatch) = 4

-----------------------------------------------------------------------------
(* Claims on the word generator *)

\* C5: with a non-empty word list and a non-empty TLD list, whatever the
\* starting index and the count > 0, every call returns exactly count
\* candidates, the word pointer keeps its two fields (no done mark) and its
\* version, and the block loop has not stopped on an empty batch.
C5_WordNeverRunsOut ==
    (words # <<>> /\ wordCalls > 0) =>
        /\ Len(wordBatch) = wordCount
        /\ ~wordStopped
        /\ DOMAIN word_pointer = {"version", "index"}
        /\ word_pointer.version = NewWordPointer.version

\* three blocks have been generated from a start index beyond the list
C5_Witness ==
    /\ Len(words) = 2 /\ wordStart = 3
    /\ wordCalls = 3 /\ wordCount = 4 /\ wordProduced > 2 * Len(words) * Len(wordTlds)

\* exactly len(words) candidates have been produced with one TLD from index 0
C6_Scenario ==
    /\ words # <<>> /\ Len(wordTlds) = 1 /\ wordStart = 0
    /\ wordCalls > 0 /\ wordProduced = Len(words)

\* the first candidate a call would return now
NextWordCandidate ==
    generate_word_batch(word_pointer, words, wordTlds, 1).batch[1]

-----------------------------------------------------------------------------
(* Claims on the aggregator *)

\* a fixed total order on results, used to put a multiset in one canonical order
ResultRank(r) ==
    (IF r.tld = PointerTlds[1] THEN 0 ELSE 1)
    + 2 * r.length
    + 8 * (IF ~r.class.dns_info.registered THEN 0
           ELSE IF r.class.http_info.usage_state = "active_site" THEN 1 ELSE 2)
    + 32 * (IF r.track THEN 0 ELSE 1)
    + 64 * Len(r.pos)

RECURSIVE FeedAll(_, _)
FeedAll(a, rs) == IF rs = <<>> THEN a ELSE FeedAll(Feed(a, Head(rs)), Tail(rs))

\* the aggregate of the same multiset of results fed in canonical order
CanonicalAggr == FeedAll(init_aggregates, Sorted(aggrFed, [i \in DOMAIN aggrFed |-> <<<<>>, ResultRank(aggrFed[i])>>]))

\* C7: whatever the order in which the results of a block arrived, the
\* aggregate has the same global counters and the same buckets (as dicts: the
\* same values under the same keys) as the aggregate of the same multiset fed
\* in one canonical order, and the payload built from it is identical.
C7_OrderIndependent ==
    LET c == CanonicalAggr IN
    /\ aggr.global = c.global
    /\ Range(aggr.length_stats) = Range(c.length_stats)
    /\ Len(aggr.length_stats) = Len(c.length_stats)
    /\ Range(aggr.length_stats_by_tld) = Range(c.length_stats_by_tld)
    /\ Len(aggr.length_stats_by_tld) = Len(c.length_stats_by_tld)
    /\ Range(aggr.tld_stats) = Range(c.tld_stats)
    /\ Len(aggr.tld_stats) = Len(c.tld_stats)
    /\ Range(aggr.word_pos_stats) = Range(c.word_pos_stats)
    /\ Len(aggr.word_pos_stats) = Len(c.word_pos_stats)
    /\ aggrPayload # <<>> => aggrPayload = build_payload(BlockDate, c)

\* a payload was built from three results that arrived out of canonical order
\* and created their buckets in another order than the sorted one
C7_Witness ==
    /\ aggrPayload # <<>>
    /\ Len(aggrFed) = 3
    /\ aggrFed # Sorted(aggrFed, [i \in DOMAIN aggrFed |-> <<<<>>, ResultRank(aggrFed[i])>>])
    /\ aggr.length_stats_by_tld # aggrPayload.length_stats_by_tld
    /\ aggr.global.domains_tracked_lifetime = 3

-----------------------------------------------------------------------------
(* Claims on the migration *)

\* C8: migrating a legacy pointer with length k, a valid tld_index t, index
\* i >= 0 and max_length M gives version 2 and a map over exactly the keys
\* str(1)..str(M) in which every length below k is done, length k has
\* tld_index t, index i and done = false, and every length above k has
\* tld_index 0, index 0 and done = false.
C8_Migration ==
    (/\ migCalled
     /\ migLegacy.tld_index \in 0..(Len(PointerTlds) - 1)
     /\ migLegacy.index >= 0) =>
        LET ls == migPointer.length_states IN
        /\ migPointer.version = 2
        /\ DOMAIN ls = {Str(L) : L \in 1..migLegacy.max_length}
        /\ \A L \in 1..migLegacy.max_length :
              /\ L < migLegacy.length => ls[Str(L)].done = TRUE
              /\ L = migLegacy.length =>
                    ls[Str(L)] = [tld_index |-> migLegacy.tld_index,
                                  index |-> migLegacy.index, done |-> FALSE]
              /\ L > migLegacy.length =>
                    ls[Str(L)] = [tld_index |-> 0, index |-> 0, done |-> FALSE]

\* the example of the claim has been migrated: k = 3, t = 1, i = 5, M = 6
C8_Witness ==
    /\ migCalled
    /\ migLegacy.length = 3 /\ migLegacy.tld_index = 1 /\ migLegacy.index = 5
    /\ migLegacy.max_length = 6
    /\ migPointer.length_states[<<"3">>] = [tld_index |-> 1, index |-> 5, done |-> FALSE]
    /\ migPointer.length_states[<<"2">>].done

-----------------------------------------------------------------------------
(* Claims on the block loop *)

\* the k-th candidate (k from 0) of a length in generation order, as the
\* (domain, tld) pair a batch holds
Candidate(charset, tlds, length, k) ==
    LET total == Pow(Len(charset), length)
        tld == tlds[(k \div total) + 1]
    IN  <<Domain(index_to_label(k % total, length, charset), tld), tld>>

\* how many candidates of a length a per-length cursor has gone past
Position(state, charset, tlds, length) ==
    LET total == Pow(Len(charset), length) IN
    IF state.done THEN Len(tlds) * total
    ELSE Min(state.tld_index * total + state.index, Len(tlds) * total)

\* the candidates of every length that a pointer has gone past
Covered(ptr) ==
    UNION {{Candidate(ptr.charset, PointerTlds, L, k) :
               k \in 0..(Position(ptr.length_states[Str(L)], ptr.charset,
                                  PointerTlds, L) - 1)} :
           L \in 1..ptr.max_length}

\* every candidate of the configured space
AllCandidates(ptr) ==
    UNION {{Candidate(ptr.charset, PointerTlds, L, k) :
               k \in 0..(Len(PointerTlds) * Pow(Len(ptr.charset), L) - 1)} :
           L \in 1..ptr.max_length}

\* what the history started with: the candidates its first cursor had covered
InitiallyCovered == Covered(Load([state |-> "ok", data |-> initialFile]))

\* C3 (as claimed): when the loop has stopped on an empty short batch, every
\* length 1..max_length is done and no candidate of the configured space is
\* left un-emitted.
C3_Original ==
    (pc = "stopped" /\ mode_for_block = "short") =>
        /\ \A L \in 1..pointer.max_length : pointer.length_states[Str(L)].done
        /\ Covered(pointer) = AllCandidates(pointer)

\* C9 (as claimed): after a crash anywhere inside a block the collector can
\* be started again, and the cursor it then loads covers exactly the
\* candidates that were covered at the start plus those of the blocks whose
\* cursors were persisted, so that generation resumes at the first candidate
\* after them.
C9_Original ==
    (pc = "off" /\ blocksStarted > 0) =>
        /\ pointerFile.state = "ok"
        /\ wordPointerFile.state = "ok"
        /\ Covered(Load(pointerFile)) = InitiallyCovered \cup processed

\* the candidates that a readable persisted cursor has come to cover since
\* the history started
NewlyCovered ==
    IF pointerFile.state = "ok"
      THEN Covered(Load(pointerFile)) \ InitiallyCovered
    ELSE {}

\* C10 (as claimed): every candidate that a persisted cursor has come to
\* cover was in exactly one payload handed to the upload: in one, and never
\* in two.
C10_Original ==
    \A d \in NewlyCovered : d \in uploaded /\ d \notin uploadedTwice

\* C10 (amended): every candidate that a persisted cursor has come to cover
\* was in at least one payload handed to the upload, and a candidate was
\* handed over in two payloads only in a history where the process was killed
\* after a hand-off and before the cursor of that block was persisted.
C10_AtLeastOnce ==
    /\ \A d \in NewlyCovered : d \in uploaded
    /\ uploadedTwice # {} => lateCrash

\* a block was handed over, the process was killed before its cursor was
\* saved, and after the restart the same candidates were handed over again
\* and their cursor persisted
C10_Witness ==
    /\ lateCrash
    /\ pointerFile.state = "ok"
    /\ NewlyCovered \cap uploadedTwice # {}
    /\ NewlyCovered \subseteq uploaded

-----------------------------------------------------------------------------
(* Claims on the done flag of a length cursor *)

\* C17: a call of generate_batch_for_length on a cursor that is done, or with
\* an empty TLD list, returns an empty batch and leaves the cursor done with
\* its tld_index and index as they were.
C17_DoneFrozen ==
    [][(length_state.done \/ genTlds = <<>>) =>
          /\ genBatch' = <<>>
          /\ length_state'.done
          /\ length_state'.tld_index = length_state.tld_index
          /\ length_state'.index = length_state.index
          /\ genEmitted' = genEmitted]_genVars

\* a cursor that migration marked done, over a non-empty charset and TLD
\* list, has been called and returned nothing
C17_Witness ==
    /\ genStart.done
    /\ genCharset # <<>> /\ genTlds # <<>>
    /\ genCalls >= 1
    /\ genBatch = <<>>
    /\ length_state = genStart

\* C18 (as claimed): from a fresh cursor, done = true holds exactly when all
\* C^L x |TLDs| pairs of the length have been emitted; so the call that emits
\* the last pair leaves done = true.
C18_Original ==
    (genStart = FreshCursor /\ genTlds # <<>> /\ genCharset # <<>> /\ genCalls > 0) =>
        (length_state.done <=>
            Range(genEmitted) = PairSet(genLength, genCharset, genTlds))

-----------------------------------------------------------------------------
(* Claims on the order of events of a block *)

\* the order in which run() goes through a block, and the kill of the process
BlockOrder ==
    {<<"off", "loop">>, <<"stopped", "loop">>, <<"died", "loop">>,
     <<"loop", "probe">>, <<"loop", "stopped">>,
     <<"probe", "upload">>, <<"upload", "save">>, <<"upload", "died">>,
     <<"save", "save_write">>, <<"save_write", "save_word">>,
     <<"save_word", "save_word_write">>, <<"save_word_write", "loop">>}
        \cup {<<p, "off">> : p \in {"loop", "probe", "upload", "save", "save_write",
                                    "save_word", "save_word_write"}}

\* C16: a block goes generate -> probe and aggregate every candidate -> build
\* the payload -> upload hand-off returns -> persist the length cursor ->
\* persist the word cursor.  The cursor files are written nowhere else: the
\* pointer file only after the hand-off of a payload that counts every
\* candidate of the batch, the word pointer file only once the pointer file
\* holds the cursor of the block; and a process begins generating its next
\* block only when both files hold the cursors it has in memory.
C16_BlockOrder ==
    [][/\ pc' # pc => <<pc, pc'>> \in BlockOrder
       /\ pointerFile' # pointerFile =>
             /\ pc \in {"save", "save_write"}
             /\ payload.global.domains_tracked_lifetime = Len(blockBatch)
             /\ blockBatch # <<>>
       /\ wordPointerFile' # wordPointerFile =>
             /\ pc \in {"save_word", "save_word_write"}
             /\ pointerFile = [state |-> "ok", data |-> pointer]
       /\ (blocksStarted' # blocksStarted /\ block_index > 0) =>
             /\ pointerFile = [state |-> "ok", data |-> pointer]
             /\ wordPointerFile = [state |-> "ok", data |-> word_pointer]
      ]_runVars

\* a process has generated its second block, from cursors that its first
\* block persisted
C16_Witness ==
    /\ block_index = 2
    /\ pc = "probe"
    /\ processed # {}
    /\ pointerFile.state = "ok" /\ wordPointerFile.state = "ok"
    /\ pointerFile.data # pointer


-----------------------------------------------------------------------------
(* Claims on the two checks of the prober *)

\* the responses the DNS phase can decide a domain state from
WellFormed(resp) ==
    /\ resp.transport = "ok"
    /\ resp.status = 200
    /\ resp.body = "object"
    /\ resp.has_Status

\* C13: check_domain_dns answers a well-formed response with Status 0 and at
\* least one Answer record with registered = has_dns = true, every other
\* well-formed response with registered = has_dns = false, both with
\* resolver_error = false, and every other outcome of the query (a non-200
\* status, a transport error, a body that is not a JSON object with a Status)
\* with resolver_error = true alone
C13_Original ==
    dnsCall.called =>
        /\ dnsCall.result.raised = "none"
        /\ dnsCall.result.value =
              IF ~WellFormed(dnsCall.resp) THEN [resolver_error |-> TRUE]
              ELSE IF dnsCall.resp.Status = 0 /\ dnsCall.resp.Answer = "records"
                THEN [registered |-> TRUE, has_dns |-> TRUE, resolver_error |-> FALSE]
              ELSE [registered |-> FALSE, has_dns |-> FALSE, resolver_error |-> FALSE]

\* C13 holds of every query whose connection is not dropped and whose body, when
\* it is JSON, is a JSON object
C13_Rest ==
    (dnsCall.called /\ dnsCall.result.raised = "none") =>
        dnsCall.result.value =
              IF ~WellFormed(dnsCall.resp) THEN [resolver_error |-> TRUE]
              ELSE IF dnsCall.resp.Status = 0 /\ dnsCall.resp.Answer = "records"
                THEN [registered |-> TRUE, has_dns |-> TRUE, resolver_error |-> FALSE]
              ELSE [registered |-> FALSE, has_dns |-> FALSE, resolver_error |-> FALSE]

\* C14: check_domain_http classifies the response the server gives by the
\* precedence transport error, status >= 500, parking keyword, redirect
\* status, non-blank HTML, and so gives parked_or_placeholder for a status 301
\* whatever the body
C14_Original ==
    httpCall.called =>
        httpCall.result.usage_state =
            IF httpCall.resp.transport # "ok" THEN "no_website"
            ELSE UsageState(httpCall.resp.status, httpCall.resp.html, httpCall.resp.body)

\* C14 holds of every response with a 2xx status
C14_Rest ==
    (httpCall.called /\ httpCall.resp.transport = "ok" /\ httpCall.resp.status \in 200..299) =>
        /\ httpCall.result.usage_state =
              UsageState(httpCall.resp.status, httpCall.resp.html, httpCall.resp.body)
        /\ httpCall.result.product_state =
              IF httpCall.resp.body.phrases \cap ProductKeywords # {}
                THEN "active_product" ELSE "unknown"


-----------------------------------------------------------------------------
(* Claims on the probe of a block *)

\* every candidate of the batch has been handed out and no call is under way
AllReturned ==
    /\ nextCand > batchSize
    /\ \A t \in DOMAIN thr : thr[t].pc \in {"idle", "raised"}
    /\ \A c \in DOMAIN futures : futures[c].state = "yielded"

\* the results aggregated for a candidate
ResultsOf(c) == {i \in DOMAIN aggregated : aggregated[i].cand = c}

NoWebsite == [usage_state |-> "no_website", product_state |-> "unknown"]

\* what C11 says of the results of a block
C11_Results ==
    /\ \A i \in DOMAIN aggregated :
          aggregated[i].dns_info.resolver_error =>
              /\ aggregated[i].dns_info =
                    [registered |-> FALSE, has_dns |-> FALSE, resolver_error |-> TRUE]
              /\ ~aggregated[i].http_called
              /\ aggregated[i].http_info = NoWebsite
    /\ \A c \in 1..batchSize : Cardinality(ResultsOf(c)) <= 1
    /\ AllReturned => \A c \in 1..batchSize : Cardinality(ResultsOf(c)) = 1

\* C11: a candidate whose DNS attempts all end in a resolver error is
\* classified registered = false, has_dns = false, resolver_error = true
\* without HTTP phase, and the run is not halted: every candidate of the batch
\* still gets exactly one aggregated classification
C11_Original == ~halted /\ C11_Results

\* C11 holds as long as no exception has left check_domain_dns
C11_Rest == ~halted => C11_Results

\* consecutive attempts of a candidate go to different resolvers
Alternates(seq) == \A i \in 1..(Len(seq) - 1) : seq[i] # seq[i + 1]

\* C12: within the probe of a candidate an attempt after a resolver error goes
\* to the next resolver, and the candidate is given resolver_error = true only
\* after every configured resolver has been tried, whatever the delays
C12_Original ==
    \A t \in DOMAIN thr :
        /\ Cardinality(Resolvers) > 1 => Alternates(thr[t].tried)
        /\ (thr[t].pc = "conclude" /\ Counter(t) = "err") => Range(thr[t].tried) = Resolvers

\* C15: the HTTP check of a candidate is made only after its DNS phase ended
\* with registered = true; a candidate with registered = false has no HTTP
\* request made and gets usage_state = no_website, product_state = unknown
C15_TwoStage ==
    /\ \A t \in DOMAIN thr :
          thr[t].pc = "http" => DictGet(thr[t].dns_info, "registered", FALSE)
    /\ \A i \in DOMAIN aggregated :
          IF aggregated[i].dns_info.registered
            THEN aggregated[i].http_called
          ELSE ~aggregated[i].http_called /\ aggregated[i].http_info = NoWebsite

\* a block with a candidate that all resolvers failed for, then a registered
\* one whose site was fetched
C15_Witness ==
    /\ Len(aggregated) = 2
    /\ aggregated[1].dns_info.resolver_error /\ ~aggregated[1].http_called
    /\ aggregated[2].dns_info.registered /\ aggregated[2].http_called
    /\ aggregated[2].http_info.usage_state = "active_site"

RECURSIVE SumCounters(_, _)
SumCounters(state, idx) ==
    IF idx \notin DOMAIN state THEN 0
    ELSE state[idx].ok + state[idx].err + SumCounters(state, idx + 1)

\* C19: with W > 0 workers, at the end of a block the health counters of the
\* resolvers add up to the number of DNS attempts made: no increment is lost
C19_Original ==
    (worker_count > 0 /\ AllReturned /\ ~halted) =>
        SumCounters(resolver_state, 0) = dnsAttempts

\* the same holds of the loop of the main thread
C19_Sequential ==
    (worker_count = 0 /\ AllReturned /\ ~halted) =>
        SumCounters(resolver_state, 0) = dnsAttempts

\* a selection through the first pass of pick_resolver comes at least
\* min_delay_ms after the latest selection of the same resolver
Paced(t) ==
    (/\ thr[t].pc = "dns"
     /\ thr[t].path = "first"
     /\ thr[t].prior
     /\ resolver_state[thr[t].idx].min_delay_ms > 0)
        => thr[t].gap >= resolver_state[thr[t].idx].min_delay_ms

\* C20: with W > 0 workers, a resolver with a delay that pick_resolver returns
\* through the first pass was last selected, by any worker, at least
\* min_delay_ms before
C20_Original == worker_count > 0 => \A t \in DOMAIN thr : Paced(t)

\* the same holds of the loop of the main thread
C20_Sequential == worker_count = 0 => \A t \in DOMAIN thr : Paced(t)


-----------------------------------------------------------------------------
(* Claims on the range of the length cursor *)

\* the combinations a cursor has not emitted yet
Remaining(state, length, charset, tlds) ==
    IF state.done \/ tlds = <<>> THEN 0
    ELSE (Len(tlds) - state.tld_index) * Pow(Len(charset), length) - state.index

\* the cursor is within the space of its length
CursorInRange ==
    /\ 0 <= length_state.index /\ length_state.index <= Pow(Len(genCharset), genLength)
    /\ 0 <= length_state.tld_index /\ length_state.tld_index <= Len(genTlds)

\* a call returns min(batch size, remaining) candidates with labels of L symbols
CallExact ==
    /\ Len(genBatch') =
          Min(genLastSize', Remaining(length_state, genLength, genCharset, genTlds))
    /\ \A i \in DOMAIN genBatch' :
          \E label \in [1..genLength -> Range(genCharset)] :
              genBatch'[i] = <<Domain(label, genBatch'[i][2]), genBatch'[i][2]>>

-----------------------------------------------------------------------------
(* Claims on the counters of the aggregate *)

RECURSIVE SumField(_, _)
\* the sum of a counter over the buckets of a list
SumField(buckets, field) ==
    IF buckets = <<>> THEN 0
    ELSE Head(buckets)[field] + SumField(Tail(buckets), field)

\* the (TLD, length) buckets of a length
BucketsOfLength(a, length) ==
    SelectSeq(a.length_stats_by_tld, LAMBDA b : b.length = length)

\* C29: after any sequence of update_aggregates calls of a short-mode block,
\* every length and (TLD, length) bucket has unregistered_found +
\* unused_found <= tracked_count, a length bucket's tracked_count is the sum
\* over its (TLD, length) buckets, and the tracked_count of all length
\* buckets, the domains_checked_total of all TLD buckets and both global
\* counters equal the number of updates
C29_CountersConsistent ==
    (\A i \in DOMAIN aggrFed : aggrFed[i].track) =>
        /\ \A i \in DOMAIN aggr.length_stats :
              /\ aggr.length_stats[i].unregistered_found + aggr.length_stats[i].unused_found
                    <= aggr.length_stats[i].tracked_count
              /\ aggr.length_stats[i].tracked_count =
                    SumField(BucketsOfLength(aggr, aggr.length_stats[i].length),
                             "tracked_count")
        /\ \A i \in DOMAIN aggr.length_stats_by_tld :
              aggr.length_stats_by_tld[i].unregistered_found
                    + aggr.length_stats_by_tld[i].unused_found
                  <= aggr.length_stats_by_tld[i].tracked_count
        /\ SumField(aggr.length_stats, "tracked_count") = Len(aggrFed)
        /\ SumField(aggr.tld_stats, "domains_checked_total") = Len(aggrFed)
        /\ aggr.global.domains_tracked_lifetime = Len(aggrFed)
        /\ aggr.global.domains_tracked_24h = Len(aggrFed)

\* a short-mode block of three results over two TLDs and two lengths, with an
\* unregistered and a parked domain among them
C29_Witness ==
    /\ Len(aggrFed) = 3
    /\ \A i \in DOMAIN aggrFed : aggrFed[i].track
    /\ Len(aggr.length_stats) = 2 /\ Len(aggr.tld_stats) = 2
    /\ Len(aggr.length_stats_by_tld) = 3
    /\ \E i \in DOMAIN aggrFed : aggrFed[i].class = Unregistered
    /\ \E i \in DOMAIN aggrFed : aggrFed[i].class = Parked


-----------------------------------------------------------------------------
(* Claims on the TLDs of a consumed word *)

\* the number of words the last call moved the cursor beyond
WordsConsumed == (Len(wordBatch) + Len(wordTlds) - 1) \div Len(wordTlds)

\* the g-th of them, counted back from the stored index
ConsumedWord(g) ==
    words[((word_pointer.index - WordsConsumed + g - 1 + WordsConsumed * Len(words))
              % Len(words)) + 1]

\* every consumed word with every TLD of the list, in list order
AllTldsBatch ==
    [i \in 1..(WordsConsumed * Len(wordTlds)) |->
        LET g == ((i - 1) \div Len(wordTlds)) + 1
            tld == wordTlds[((i - 1) % Len(wordTlds)) + 1]
        IN  <<Domain(ConsumedWord(g), tld), tld>>]

\* C26: every word the cursor of generate_word_batch advances past is emitted
\* with all TLDs of the list, in list order, whatever the counts of the calls
C26_Original ==
    (words # <<>> /\ wordCalls > 0) => wordBatch = AllTldsBatch

\* what holds instead: the batch is cut at count, so the last word of a call
\* is emitted with the first TLDs only, and the next call starts at the next word
C26_Rest ==
    (words # <<>> /\ wordCalls > 0) =>
        wordBatch = SubSeq(AllTldsBatch, 1, wordCount)


-----------------------------------------------------------------------------
(* Claims on the upload outcome and the cursor files *)

\* the block ends with both cursors persisted as the block left them
BlockEndPersists ==
    (pc = "save_word_write" /\ pc' = "loop") =>
        /\ pointerFile' = [state |-> "ok", data |-> pointer]
        /\ wordPointerFile' = [state |-> "ok", data |-> word_pointer]

\* C23: whatever the outcome of the upload hand-off (2xx, non-2xx, transport
\* error, dry run), the process goes on to persist the length cursor and the
\* word cursor as advanced by the block, and then to the next block
C23_Original ==
    [][/\ (pc = "upload" /\ pc' \notin {"upload", "off"}) => pc' = "save"
       /\ BlockEndPersists]_runVars

\* C23 holds of every outcome that upload_aggregate returns a status for
C23_Rest ==
    [][/\ (pc = "upload" /\ pc' \notin {"upload", "off", "died"}) =>
             (pc' = "save" /\ status_code' \in UploadStatuses)
       /\ BlockEndPersists]_runVars


\* C27: a process killed at any point of Pointer.save or WordPointer.save
\* leaves files that the next start reads back whole: the previous record or
\* the new one, never an empty or partial one
C27_Original ==
    pc \in {"off", "died"} =>
        /\ pointerFile.state = "ok"
        /\ wordPointerFile.state = "ok"


\* C28: once a pointer has been migrated (version 2, a per-length map) and
\* saved, every later Pointer.load returns the record as it was last saved,
\* per-length states included, and does not derive them from the legacy
\* length, tld_index and index again
C28_MigratedOnce ==
    [][(pc' = "loop" /\ pc \in {"off", "stopped", "died"}
            /\ pointerFile.data.version = 2 /\ pointerFile.data.max_length >= 1) =>
          /\ pointer' = pointerFile.data
          /\ pointer'.length_states = pointerFile.data.length_states]_runVars

\* a process was started on a saved version 2 pointer whose per-length
\* cursors have moved on from what the legacy fields would give
C28_Witness ==
    /\ pc = "loop" /\ block_index = 0
    /\ pointerFile.state = "ok" /\ pointerFile.data.version = 2
    /\ processed # {}
    /\ pointer = pointerFile.data
    /\ pointer.length_states # MigratedStates(pointerFile.data, PointerTlds)


-----------------------------------------------------------------------------
(* Claims on the mode and the length of a block *)

\* the process is in a block (or has just stopped on its empty batch)
InBlock == pc \in {"probe", "upload", "save", "save_write", "save_word",
                   "save_word_write", "stopped"}

\* C25: with short and word mode both enabled the blocks of a run alternate
\* short, words, short, ... starting with short; with one mode enabled every
\* block uses it; with none enabled every block is short; so no block runs in
\* a mode that is not enabled
C25_ModesFollowConfig ==
    InBlock =>
        mode_for_block =
            IF argShort /\ argWords
              THEN (IF block_index % 2 = 1 THEN "short" ELSE "words")
            ELSE IF argWords THEN "words"
            ELSE "short"

\* the third block of a run with both modes enabled, after a short and a
\* words block
C25_Witness ==
    /\ argShort /\ argWords
    /\ block_index = 3 /\ pc = "probe" /\ mode_for_block = "short"
    /\ word_pointer.index > 0 /\ processed # {}


\* the most blocks an unfinished length can be passed over: the list of n
\* unfinished lengths is gone through in at most n - 1 blocks, and starts
\* again, one shorter, when a length is finished
WaitBound(n) == (n * (n - 1)) \div 2

\* C24: each short-mode block visits one length that is not done, chosen by
\* round robin, and no unfinished length starves: while the run goes on it is
\* selected again, after being passed over in at most WaitBound(max_length)
\* blocks
C24_NoStarvation ==
    /\ [][rrIndex' # rrIndex =>
             /\ rrIndex' = rrIndex + 1
             /\ rrSelected' \in Range(UnfinishedLengths(rrPointer))]_rrVars
    /\ [](\A L \in DOMAIN rrWaited : rrWaited[L] <= WaitBound(rrPointer.max_length))

\* the longest length of three has been passed over three times in a row,
\* a shorter length having been finished meanwhile, and the run goes on
C24_Witness ==
    /\ rrPointer.max_length = 3
    /\ rrWaited[3] = 3
    /\ ~rrStopped
    /\ \E L \in 1..2 : rrPointer.length_states[Str(L)].done


-----------------------------------------------------------------------------
(* Claims on pick_resolver *)

\* the resolvers without delay or whose delay has elapsed at the time now
Eligible(state, now) ==
    {i \in DOMAIN state :
        state[i].min_delay_ms <= 0 \/ now - state[i].last_used_ms >= state[i].min_delay_ms}

\* the entry the rule names: the first eligible one, entry 0 if there is none
ExpectedPick(state, now) ==
    IF Eligible(state, now) = {} THEN 0
    ELSE CHOOSE i \in Eligible(state, now) : \A j \in Eligible(state, now) : i <= j

\* C22: in the loop of the main thread pick_resolver returns the first entry
\* whose delay is <= 0 or has elapsed since last_used_ms, entry 0 if there is
\* none, sets last_used_ms of that entry to now and changes nothing else in
\* resolver_state
C22_PickResolver ==
    [][(worker_count = 0 /\ thr[1].pc = "pick_write" /\ thr'[1].pc = "dns") =>
          LET chosen == ExpectedPick(resolver_state, thr[1].now) IN
            /\ thr'[1].idx = chosen
            /\ resolver_state'[chosen].last_used_ms = thr[1].now
            /\ \A f \in {"min_delay_ms", "ok", "err"} :
                  resolver_state'[chosen][f] = resolver_state[chosen][f]
            /\ \A i \in Resolvers \ {chosen} : resolver_state'[i] = resolver_state[i]
            /\ DOMAIN resolver_state' = DOMAIN resolver_state]_probeVars

\* pick_resolver has returned entry 0 while both resolvers were cooling down,
\* the other one selected before
C22_Witness ==
    /\ worker_count = 0 /\ Cardinality(Resolvers) = 2
    /\ thr[1].pc = "dns" /\ thr[1].path = "fallback" /\ thr[1].idx = 0
    /\ resolver_state[1].last_used_ms = 1
    /\ resolver_state[0].last_used_ms = 1


-----------------------------------------------------------------------------
(* Claims on the end of the probe of a block *)

\* C21: with or without thread pool and in every order of completion, when
\* the payload of the block is built every candidate of the batch has been
\* probed and aggregated exactly once, so that domains_tracked_lifetime of the
\* payload is the size of the batch; and only the control loop, never a thread
\* of the pool, changes the aggregate
C21_BlockBoundary ==
    /\ [](probePayload.built =>
            /\ \A t \in DOMAIN thr : thr[t].pc = "idle"
            /\ nextCand > batchSize
            /\ \A c \in 1..batchSize : Cardinality(ResultsOf(c)) = 1
            /\ Len(aggregated) = batchSize
            /\ probePayload.global.domains_tracked_lifetime = batchSize)
    /\ [][(worker_count > 0 /\ aggregated' # aggregated) =>
             /\ thr' = thr
             /\ \E c \in DOMAIN futures :
                   /\ futures[c].state = "done"
                   /\ futures' = [futures EXCEPT ![c] = FutureYielded]
                   /\ aggregated' = Append(aggregated, futures[c].result[1])]_probeVars

\* the payload of a block probed by the pool, the second candidate having
\* completed, and been aggregated, before the first
C21_Witness ==
    /\ worker_count = 2 /\ batchSize = 2
    /\ probePayload.built
    /\ aggregated[1].cand = 2 /\ aggregated[2].cand = 1
    /\ probePayload.global.domains_tracked_lifetime = 2

=============================================================================
